---- MODULE Spec2Model ----
(***************************************************************************)
(* Model of the labeling optimizer of src/7.2.py: the parallel position    *)
(* simulator simulate_system_for_metrics and the grid loop run_grid_search.*)
(*                                                                         *)
(* Numbers.  The source computes in floating point; the model computes in  *)
(* exact fixed point.  A fraction (tp_frac, sl_frac, a cost rate) is an    *)
(* integer count of 1/Unit.  A weighted return, the linear equity and the  *)
(* drawdown are integer counts of 1/One, where One = Unit * HL and HL is   *)
(* the least common multiple of the horizons in range, so that the weight  *)
(* w = 1/h is the integer HL \div h.  A price level is the integer         *)
(* entry * (Unit + frac), a price scaled by Unit.  The compounded equity   *)
(* is a product of factors (One + eff_r)/One and is kept in product form   *)
(* (sign and the factors' numerators), since the product itself exceeds    *)
(* the integer range of TLC.                                               *)
(***************************************************************************)
EXTENDS Integers, Sequences, FiniteSets, TLC

\* ------------------------------------------------------------------ bounds
MaxBars == 4
MaxH == 3
MaxGridH == 2
MaxRows == 2
MaxRuns == 2

\* ------------------------------------------------------- program constants
TP_STEPS == 25
SL_STEPS == 25
START_CAPITAL == 100000

\* fixed-point scale: 1/10000 resolves the cost rates, TP_STEPS - 1 the
\* linspace steps of the grid
Unit == 10000 * (TP_STEPS - 1)

TP_MIN == (5 * Unit) \div 1000
TP_MAX == (40 * Unit) \div 100
SL_MIN == (5 * Unit) \div 1000
SL_MAX == (20 * Unit) \div 100
FEE_RATE == Unit \div 1000
SPREAD_RATE == Unit \div 10000
DEFAULT_COST_FRAC == 2 * FEE_RATE + SPREAD_RATE

\* lines 60-64, the fractions in 1/Unit
CNN_MIN_TRADES == 800
CNN_MIN_LABEL1 == [num |-> 35, den |-> 100]
CNN_MAX_LABEL1 == [num |-> 65, den |-> 100]
CNN_MIN_SPREAD == Unit \div 100
CNN_CAGR_TOLERANCE == Unit \div 50
\* the 1e-12 of lines 1786-1788, in units of 1e-13
RATIO_EPS == 10
None == [none |-> TRUE]
NaN == [nan |-> TRUE]

\* ------------------------------------------------------------ arithmetic
Max(a, b) == IF a >= b THEN a ELSE b
Min(a, b) == IF a <= b THEN a ELSE b

RECURSIVE Gcd(_, _)
Gcd(a, b) == IF b = 0 THEN a ELSE Gcd(b, a % b)

RECURSIVE LcmUpTo(_)
LcmUpTo(k) == IF k <= 1 THEN 1 ELSE LET l == LcmUpTo(k - 1) IN (l * k) \div Gcd(l, k)

HL == LcmUpTo(Max(MaxH, MaxGridH))
One == Unit * HL

Abs(a) == IF a >= 0 THEN a ELSE -a

\* a rational number num/den, den > 0, in lowest terms
Rat(num, den) ==
    LET g == Gcd(Abs(num), den)
    IN [num |-> num \div g, den |-> den \div g]
RatEq(p, q) == p.num * q.den = q.num * p.den
RatOfInt(a) == [num |-> a, den |-> 1]

\* natural numbers beyond the integer range of TLC: the sequence of their
\* decimal digits, lowest first, no leading zero (0 is the empty sequence)
RECURSIVE BigOf(_)
BigOf(x) == IF x = 0 THEN <<>> ELSE <<x % 10>> \o BigOf(x \div 10)
RECURSIVE BigTimesCarry(_, _, _)
BigTimesCarry(b, m, carry) ==
    IF b = <<>> THEN BigOf(carry)
    ELSE LET v == Head(b) * m + carry
         IN <<v % 10>> \o BigTimesCarry(Tail(b), m, v \div 10)
\* b * m, for 0 <= m < 10^8
BigTimes(b, m) == IF m = 0 THEN <<>> ELSE BigTimesCarry(b, m, 0)
\* b times every member of the sequence ms
RECURSIVE BigProd(_, _)
BigProd(b, ms) == IF ms = <<>> THEN b ELSE BigProd(BigTimes(b, Head(ms)), Tail(ms))
RECURSIVE BigAddCarry(_, _, _)
BigAddCarry(a, b, carry) ==
    IF a = <<>> /\ b = <<>> THEN BigOf(carry)
    ELSE LET x == IF a = <<>> THEN 0 ELSE Head(a)
             y == IF b = <<>> THEN 0 ELSE Head(b)
             v == x + y + carry
         IN <<v % 10>> \o BigAddCarry(IF a = <<>> THEN a ELSE Tail(a),
                                      IF b = <<>> THEN b ELSE Tail(b), v \div 10)
BigAdd(a, b) == BigAddCarry(a, b, 0)
\* b * 10^e
BigShift(b, e) == IF b = <<>> THEN b ELSE [x \in 1..e |-> 0] \o b
RECURSIVE BigLessFrom(_, _, _)
BigLessFrom(a, b, j) ==
    IF j = 0 THEN FALSE
    ELSE IF a[j] # b[j] THEN a[j] < b[j]
    ELSE BigLessFrom(a, b, j - 1)
BigLess(a, b) ==
    \/ Len(a) < Len(b)
    \/ Len(a) = Len(b) /\ BigLessFrom(a, b, Len(a))
\* x / scale > 10^(-e), for x any integer and scale > 0
AboveTenTo(x, scale, e) == x > 0 /\ BigLess(BigOf(scale), BigShift(BigOf(x), e))

VARIABLES
    \* configuration (module-level globals of 7.2.py)
    AMBIGUOUS_FILL, TOTAL_COST_FRAC, HORIZON_MIN, HORIZON_MAX,
    \* input: the price frame and the calendar days it spans
    df, days,
    \* arguments of the current call of simulate_system_for_metrics
    tp_frac, sl_frac, horizon_days,
    \* locals of simulate_system_for_metrics
    pc, n, h, i, k, open_pos, still_open,
    trades, label1_count, pnl_linear_sum, equity_lin, max_equity_lin, dd_min,
    mean_r, M2, equity_comp, stats,
    \* history of resolutions of the current call (not in the source)
    log,
    \* the caller: repeated direct calls
    runs, first, saved,
    \* the caller: locals of run_grid_search
    gpc, ti, si, hj, counter, total_combos, results, reports,
    \* locals of simulate_daily_realized_pnl_parallel, and the history of its
    \* resolutions (dlog, not in the source)
    dpc, dn, dh, di, dk, d_open_pos, d_still, daily_realized, daily_scenario, dlog,
    \* the main program of 7.2.py after the grid run
    mpc, df_res, asset_total, asset_annual_lin, asset_cagr, df_cnn,
    \* backend/app/main.py: the run registry, the labeling-optimizer tasks and
    \* the progress.json of each run
    all_runs, task, progress_json,
    \* backend/app/main.py: the process table of the chart generator, the
    \* subprocess of each generator run, the in-memory tables of the trainer,
    \* the backtester and the test-data generator
    running_processes, proc, trainer_runs, backtester_runs, testdata_runs,
    \* whether the cancel endpoint has returned for a run, and the last answer
    \* of the analysis endpoint for a trainer run (not in the source)
    cancel_returned, analysis_response,
    \* 1.3_Adj_TrL.py: arguments, locals and result of
    \* tp_first_else_zero_from_next_open
    lab_pc, data_empty, future_data, lab_f, lab_s, lab_entry_price, lab_tp_level,
    lab_sl_level, lab_j, lab_ret

labelVars == <<lab_pc, data_empty, future_data, lab_f, lab_s, lab_entry_price,
               lab_tp_level, lab_sl_level, lab_j, lab_ret>>
cfgVars == <<AMBIGUOUS_FILL, TOTAL_COST_FRAC, HORIZON_MIN, HORIZON_MAX>>
inVars == <<df, days>>
argVars == <<tp_frac, sl_frac, horizon_days>>
accVars == <<trades, label1_count, pnl_linear_sum, equity_lin, max_equity_lin,
             dd_min, mean_r, M2, equity_comp>>
simVars == <<pc, n, h, i, k, open_pos, still_open, accVars, stats, log>>
callerVars == <<runs, first, saved>>
mainVars == <<mpc, df_res, asset_total, asset_annual_lin, asset_cagr, df_cnn>>
toolVars == <<running_processes, proc, trainer_runs, backtester_runs, testdata_runs,
              cancel_returned, analysis_response>>
svcVars == <<all_runs, task, progress_json, toolVars>>
gridVars == <<gpc, ti, si, hj, counter, total_combos, results, reports>>
dailyVars == <<dpc, dn, dh, di, dk, d_open_pos, d_still, daily_realized,
               daily_scenario, dlog>>
vars == <<labelVars, cfgVars, inVars, argVars, simVars, callerVars, gridVars,
          mainVars, svcVars,
          dailyVars>>

\* ------------------------------------------------------------ the inputs
Bar(o, hi, lo) == [Open |-> o, High |-> hi, Low |-> lo]
FlatBar == Bar(4, 4, 4)
BarShapes == {FlatBar, Bar(4, 6, 4), Bar(4, 6, 2), Bar(4, 4, 0), Bar(6, 6, 6)}

\* series of len bars; bar 0 is never priced by the simulator
SeriesOfLen(len) ==
    IF len = 0 THEN {<<>>}
    ELSE {<<FlatBar>> \o s : s \in [1..(len - 1) -> BarShapes]}
Series == UNION {SeriesOfLen(len) : len \in 0..MaxBars}

TpValues == {TP_MIN, Unit \div 2}
SlValues == {Unit \div 2, Unit}
Policies == {"SL_FIRST", "TP_FIRST"}

\* ------------------------------------------------ simulate_system_for_metrics
Weight(hh) == HL \div hh

TpLevel(entry_price, tp) == entry_price * (Unit + tp)
SlLevel(entry_price, sl) == entry_price * (Unit - sl)
\* variant: the expiry is not clipped to the last bar
ExpiryUnclipped(ii, hh, nn) == ii + hh - 1
\* variant: the position lives one bar longer
ExpiryLate(ii, hh, nn) == Min(ii + hh, nn - 1)
Expiry(ii, hh, nn) == Min(ii + hh - 1, nn - 1)

HitTp(hi, tpL) == hi * Unit >= tpL
HitSl(lo, slL) == lo * Unit <= slL

\* variant: the fill policy is not consulted, SL always wins
OutcomeSlAlways(hit_tp, hit_sl, fill) ==
    IF hit_sl THEN -1 ELSE IF hit_tp THEN 1 ELSE 0
\* out of lines 266-274: +1 TP, -1 SL, 0 flat or still running
Outcome(hit_tp, hit_sl, fill) ==
    IF hit_tp /\ hit_sl THEN (IF fill = "TP_FIRST" THEN 1 ELSE -1)
    ELSE IF hit_sl THEN -1
    ELSE IF hit_tp THEN 1
    ELSE 0

\* variant: a position lives until its expiry bar whatever it hit
StaysOpenUntilExpiry(out, ii, exp) == ii < exp
\* line 277: if out == 0 and i < exp
StaysOpen(out, ii, exp) == out = 0 /\ ii < exp

RawReturn(out, tp, sl) == IF out = 1 THEN tp ELSE IF out = -1 THEN -sl ELSE 0
CountedForStats(out) == out # 0
\* variant: a flat expiry counts as a trade
NextTradesAll(tr, out) == tr + 1
NextTrades(tr, out) == IF out # 0 THEN tr + 1 ELSE tr
NextLabel1(l1, out) == IF out = 1 THEN l1 + 1 ELSE l1

\* variant: a flat expiry pays no cost
EffRFlatFree(out, tp, sl, hh, cost) ==
    IF out = 0 THEN 0
    ELSE Weight(hh) * RawReturn(out, tp, sl) - Weight(hh) * cost
\* variant: the cost is charged in full, not per unit of weight
EffRCostUnweighted(out, tp, sl, hh, cost) ==
    Weight(hh) * RawReturn(out, tp, sl) - HL * cost
EffR(out, tp, sl, hh, cost) ==
    Weight(hh) * RawReturn(out, tp, sl) - Weight(hh) * cost

\* variant: no floor at 0
EquityLinNoFloor(eq, eff_r) == eq + eff_r
EquityLinUpdate(eq, eff_r) == Max(eq + eff_r, 0)

\* Welford, lines 309-313, with tr the count after the increment:
\* mean_r + (eff_r - mean_r) / tr
WelfordMean(mean, eff_r, tr) ==
    Rat(mean.num * (tr - 1) + eff_r * mean.den, mean.den * tr)
\* delta2 = eff_r - (new mean_r)
WelfordDelta2(newmean, eff_r) ==
    Rat(eff_r * newmean.den - newmean.num, newmean.den)
\* M2 is a sum of squares delta2 * delta2, kept as the sequence of the delta2,
\* since a square exceeds the integer range of TLC
WelfordM2(m2, delta2) == Append(m2, delta2)

\* equity_comp = start_equity * s * (product of f) / One^Len(f)
CompStart == [s |-> 1, f |-> <<>>]
CompZero == [s |-> 0, f |-> <<>>]
CompTimes(eq, m) ==
    IF eq.s = 0 \/ m = 0 THEN CompZero
    ELSE [s |-> IF m > 0 THEN eq.s ELSE -eq.s,
          f |-> Append(eq.f, IF m > 0 THEN m ELSE -m)]
CompFloor(eq) == IF eq.s < 0 THEN CompZero ELSE eq
EquityCompUpdate(eq, eff_r) == CompFloor(CompTimes(eq, One + eff_r))


\* variant: two bars are taken for enough
TooShortOffByOne(nn) == nn < 2
\* lines 221-223
TooShort(nn) == nn < 3

\* variant: the linear equity of the previous call is carried over
KeepEquityLin == equity_lin
\* variant: the trade count of the previous call is carried over
KeepTrades == trades
\* fresh locals of a call, lines 231-246
StartTrades == 0
StartEquityLin == One
StartEquityComp == CompStart

Position(tpL, slL, exp, born) ==
    [tp_level |-> tpL, sl_level |-> slL, expiry |-> exp, born |-> born]

\* lines 216-246: read the frame, give up on fewer than 3 bars, else set up
SimCall ==
    /\ pc = "call"
    /\ n' = Len(df)
    /\ IF TooShort(Len(df))
       THEN /\ stats' = None
            /\ pc' = "returned"
            /\ UNCHANGED <<h, i, k, open_pos, still_open, accVars, log>>
       ELSE /\ h' = Max(horizon_days, 1)
            /\ trades' = StartTrades
            /\ label1_count' = 0
            /\ pnl_linear_sum' = 0
            /\ equity_lin' = StartEquityLin
            /\ max_equity_lin' = One
            /\ dd_min' = 0
            /\ mean_r' = RatOfInt(0)
            /\ M2' = <<>>
            /\ equity_comp' = StartEquityComp
            /\ open_pos' = <<>>
            /\ still_open' = <<>>
            /\ log' = <<>>
            /\ i' = 1
            /\ k' = 1
            /\ pc' = "bar"
            /\ UNCHANGED stats
    /\ UNCHANGED <<dailyVars, svcVars, mainVars, labelVars, cfgVars,
                   inVars, argVars, callerVars, gridVars>>

\* lines 250-261: open the position of day i, start the pass over open_pos
OpenPosition ==
    /\ pc = "bar"
    /\ LET entry_price == df[i + 1].Open
       IN open_pos' = Append(open_pos,
              Position(TpLevel(entry_price, tp_frac), SlLevel(entry_price, sl_frac),
                       Expiry(i, h, n), i))
    /\ still_open' = <<>>
    /\ k' = 1
    /\ pc' = "loop"
    /\ UNCHANGED <<n, h, i, accVars, stats, log>>
    /\ UNCHANGED <<dailyVars, svcVars, mainVars, labelVars, cfgVars,
                   inVars, argVars, callerVars, gridVars>>

\* lines 262-317: one pass of the loop over open_pos, for its k-th position
ProcessPosition ==
    /\ pc = "loop"
    /\ k <= Len(open_pos)
    /\ LET p == open_pos[k]
           hit_tp == HitTp(df[i + 1].High, p.tp_level)
           hit_sl == HitSl(df[i + 1].Low, p.sl_level)
           out == Outcome(hit_tp, hit_sl, AMBIGUOUS_FILL)
           eff_r == EffR(out, tp_frac, sl_frac, h, TOTAL_COST_FRAC)
           eq == EquityLinUpdate(equity_lin, eff_r)
           mx == Max(max_equity_lin, eq)
           tr == NextTrades(trades, out)
           mean == WelfordMean(mean_r, eff_r, tr)
       IN IF StaysOpen(out, i, p.expiry)
          THEN /\ still_open' = Append(still_open, p)
               /\ UNCHANGED <<accVars, log>>
          ELSE /\ trades' = tr
               /\ label1_count' = NextLabel1(label1_count, out)
               /\ pnl_linear_sum' = pnl_linear_sum + eff_r
               /\ equity_lin' = eq
               /\ max_equity_lin' = mx
               /\ dd_min' = Min(dd_min, eq - mx)
               /\ IF CountedForStats(out)
                  THEN /\ mean_r' = mean
                       /\ M2' = WelfordM2(M2, WelfordDelta2(mean, eff_r))
                  ELSE UNCHANGED <<mean_r, M2>>
               /\ equity_comp' = EquityCompUpdate(equity_comp, eff_r)
               /\ log' = Append(log, [born |-> p.born, bar |-> i, out |-> out,
                                      hit_tp |-> hit_tp, hit_sl |-> hit_sl,
                                      expiry |-> p.expiry, eff_r |-> eff_r, eq |-> eq])
               /\ UNCHANGED still_open
    /\ k' = k + 1
    /\ UNCHANGED <<pc, n, h, i, open_pos, stats>>
    /\ UNCHANGED <<dailyVars, svcVars, mainVars, labelVars, cfgVars,
                   inVars, argVars, callerVars, gridVars>>

\* line 319 and the step of the for loop of line 249
EndBar ==
    /\ pc = "loop"
    /\ k > Len(open_pos)
    /\ open_pos' = still_open
    /\ i' = i + 1
    /\ pc' = IF i + 1 < n THEN "bar" ELSE "post"
    /\ UNCHANGED <<n, h, k, still_open, accVars, stats, log>>
    /\ UNCHANGED <<dailyVars, svcVars, mainVars, labelVars, cfgVars,
                   inVars, argVars, callerVars, gridVars>>

\* years = days / 365.25 = 4 * days / 1461 (days >= 2 for 3 dated bars)
\* variant: the drawdown is reported without the cap at 1.0
MaxDrawdownUncapped(dd) == -dd
\* lines 328-329
MaxDrawdown(dd) == Min(-dd, One)
\* variant: every resolution, flat ones included, counts as a trade
TradesPerYearAll(tr, dd) == Rat(Len(log) * 1461, 4 * dd)
TradesPerYear(tr, dd) == Rat(tr * 1461, 4 * dd)
Label1Ratio(l1, tr) == IF tr > 0 THEN Rat(l1, tr) ELSE Rat(0, 1)

\* the sum of the squares kept in m2, times Q * Q, for Q a common multiple of
\* their denominators
RECURSIVE M2Scaled(_, _)
M2Scaled(m2, Q) ==
    IF m2 = <<>> THEN <<>>
    ELSE LET a == Abs(Head(m2).num)
             c == Q \div Head(m2).den
         IN BigAdd(BigProd(BigOf(1), <<a, a, c, c>>), M2Scaled(Tail(m2), Q))
\* lines 335-337: var = M2 / (trades - 1), std_r = sqrt(var) if var > 0 else 0,
\* and std_r > 1e-12, that is var > 1e-24 (the squares are in units of 1/One^2)
StdAbove(m2, tr) ==
    LET Q == LcmUpTo(tr)
    IN BigLess(BigProd(BigOf(tr - 1), <<Q, Q, One, One>>),
               BigShift(M2Scaled(m2, Q), 24))
\* lines 334-343: mean_r / std_r * sqrt(trades_per_year), kept as its operands
SharpeAnnual(mean, m2, tr, tpy) ==
    IF tr > 1
    THEN IF StdAbove(m2, tr)
         THEN [mean_r |-> mean, M2 |-> m2, trades |-> tr, trades_per_year |-> tpy]
         ELSE NaN
    ELSE NaN
\* line 345: equity_comp / start_equity - 1, kept as the compounded equity
CompoundedReturn(eq) == [equity_comp |-> eq]
\* line 346: compounded_return > -0.999999, that is equity_comp / start_equity
\* above 1e-6
ReturnAbove(eq) ==
    /\ eq.s > 0
    /\ BigLess(BigProd(BigOf(1), [x \in 1..Len(eq.f) |-> One]),
               BigShift(BigProd(BigOf(1), eq.f), 6))
\* variant: the root is taken whatever the return
CompoundedCagrUnguarded(eq, dd) == [equity_comp |-> eq, days |-> dd]
\* lines 346-349: (1 + compounded_return) ** (1 / years) - 1, kept as its
\* operands (years > 0 by line 226)
CompoundedCagr(eq, dd) ==
    IF ReturnAbove(eq) THEN [equity_comp |-> eq, days |-> dd] ELSE NaN
\* what a division by zero would leave instead of a value
Raised == [raised |-> "ZeroDivisionError"]
\* variant: the drawdown is divided by without the guard
CalmarUnguarded(pnl, mdd, dd) ==
    IF mdd = 0 THEN Raised ELSE [ratio |-> Rat(pnl, mdd), days |-> dd]
\* line 351: pnl_linear_per_year / max_drawdown if max_drawdown > 1e-9, kept
\* as pnl_linear / max_drawdown and the days of the year count
CalmarRatio(pnl, mdd, dd) ==
    IF AboveTenTo(mdd, One, 9) THEN [ratio |-> Rat(pnl, mdd), days |-> dd] ELSE NaN

\* lines 321-376: the derived figures and the returned dict
PostPass ==
    /\ pc = "post"
    /\ stats' = [tp_frac |-> tp_frac,
                 sl_frac |-> sl_frac,
                 horizon_days |-> h,
                 trades |-> trades,
                 days |-> days,
                 pnl_linear |-> pnl_linear_sum,
                 pnl_linear_pct |-> pnl_linear_sum * 100,
                 pnl_per_trade |-> mean_r,
                 label1_ratio |-> Label1Ratio(label1_count, trades),
                 max_drawdown |-> MaxDrawdown(dd_min),
                 trades_per_year |-> TradesPerYear(trades, days),
                 sharpe_annual |-> SharpeAnnual(mean_r, M2, trades,
                                                TradesPerYear(trades, days)),
                 calmar_ratio |-> CalmarRatio(pnl_linear_sum, MaxDrawdown(dd_min),
                                              days),
                 equity_final |-> equity_comp,
                 compounded_return |-> CompoundedReturn(equity_comp),
                 compounded_cagr |-> CompoundedCagr(equity_comp, days)]
    /\ pc' = "returned"
    /\ UNCHANGED <<n, h, i, k, open_pos, still_open, accVars, log>>
    /\ UNCHANGED <<dailyVars, svcVars, mainVars, labelVars, cfgVars,
                   inVars, argVars, callerVars, gridVars>>

Simulate == SimCall \/ OpenPosition \/ ProcessPosition \/ EndBar \/ PostPass

\* ------------------------------------------------- a caller of the simulator
\* the same combination on the same frame, once more
Rerun ==
    /\ pc = "returned"
    /\ gpc = "off"
    /\ runs = 1
    /\ saved = None
    /\ first' = stats
    /\ runs' = 2
    /\ pc' = "call"
    /\ UNCHANGED saved
    /\ UNCHANGED <<n, h, i, k, open_pos, still_open, accVars, stats, log>>
    /\ UNCHANGED <<dailyVars, svcVars, mainVars, labelVars, cfgVars,
                   inVars, argVars, gridVars>>

GridOff ==
    /\ gpc = "off"
    /\ ti = 1 /\ si = 1 /\ hj = 1
    /\ counter = 0
    /\ total_combos = 0
    /\ results = <<>>
    /\ reports = <<>>

MainOff ==
    /\ mpc = "off"
    /\ df_res = <<>>
    /\ asset_total = None
    /\ asset_annual_lin = None
    /\ asset_cagr = None
    /\ df_cnn = <<>>

ServiceOff ==
    /\ all_runs = <<>>
    /\ task = <<>>
    /\ progress_json = <<>>
    /\ running_processes = <<>>
    /\ proc = <<>>
    /\ trainer_runs = <<>>
    /\ backtester_runs = <<>>
    /\ testdata_runs = <<>>
    /\ cancel_returned = <<>>
    /\ analysis_response = <<>>

LabelOff ==
    /\ lab_pc = "off"
    /\ data_empty = FALSE /\ future_data = <<>>
    /\ lab_f = 0 /\ lab_s = 0
    /\ lab_entry_price = 0 /\ lab_tp_level = 0 /\ lab_sl_level = 0
    /\ lab_j = 0
    /\ lab_ret = None

DailyOff ==
    /\ dpc = "off"
    /\ dn = 0 /\ dh = 1 /\ di = 0 /\ dk = 0
    /\ d_open_pos = <<>> /\ d_still = <<>>
    /\ daily_realized = <<>> /\ daily_scenario = <<>>
    /\ dlog = <<>>

LocalsUnset ==
    /\ n = 0 /\ h = 1 /\ i = 0 /\ k = 0
    /\ open_pos = <<>> /\ still_open = <<>>
    /\ trades = 0 /\ label1_count = 0 /\ pnl_linear_sum = 0
    /\ equity_lin = One /\ max_equity_lin = One /\ dd_min = 0
    /\ mean_r = RatOfInt(0) /\ M2 = <<>>
    /\ equity_comp = CompStart
    /\ stats = None
    /\ log = <<>>

\* one call of the simulator on any frame, combination and fill policy
Init ==
    /\ AMBIGUOUS_FILL \in Policies
    /\ TOTAL_COST_FRAC = DEFAULT_COST_FRAC
    /\ HORIZON_MIN = 1 /\ HORIZON_MAX = MaxH
    /\ df \in Series
    /\ days = Max(Len(df) - 1, 0)
    /\ tp_frac \in TpValues
    /\ sl_frac \in SlValues
    /\ horizon_days \in 1..MaxH
    /\ pc = "call"
    /\ LocalsUnset
    /\ DailyOff
    /\ LabelOff
    /\ runs = 1 /\ first = None /\ saved = None
    /\ MainOff
    /\ ServiceOff
    /\ GridOff

Next == Simulate

\* a 10-bar series, flat but for two adjacent bars
TenSeries ==
    {[x \in 1..10 |-> IF x = j + 1 THEN a ELSE IF x = j + 2 THEN b ELSE FlatBar] :
        j \in 1..8, a \in BarShapes, b \in BarShapes}
CostValues == {0, DEFAULT_COST_FRAC}

\* one call of the simulator on a 10-bar series, at zero and at default cost
InitTen ==
    /\ AMBIGUOUS_FILL = "SL_FIRST"
    /\ TOTAL_COST_FRAC \in CostValues
    /\ HORIZON_MIN = 1 /\ HORIZON_MAX = MaxH
    /\ df \in TenSeries
    /\ days = Len(df) + 3
    /\ tp_frac \in TpValues
    /\ sl_frac \in SlValues
    /\ horizon_days \in 1..MaxH
    /\ pc = "call"
    /\ LocalsUnset
    /\ DailyOff
    /\ LabelOff
    /\ runs = 1 /\ first = None /\ saved = None
    /\ MainOff
    /\ ServiceOff
    /\ GridOff

SpecTen == InitTen /\ [][Next]_vars

\* ------------------------------------------------------------ run_grid_search
\* np.linspace(lo, hi, steps)[idx - 1]
Linspace(lo, hi, steps, idx) == lo + ((idx - 1) * (hi - lo)) \div (steps - 1)
\* len(np.arange(lo, hi + 1))
ArangeLen(lo, hi) == Max(hi + 1 - lo, 0)
\* np.arange(lo, hi + 1)[idx - 1]
Arange(lo, hi, idx) == lo + idx - 1

TotalCombos == TP_STEPS * SL_STEPS * ArangeLen(HORIZON_MIN, HORIZON_MAX)

\* the row appended for a result, lines 419-443
Row(st) ==
    [tp_frac |-> st.tp_frac,
     sl_frac |-> st.sl_frac,
     horizon_days |-> st.horizon_days,
     spread |-> st.tp_frac - st.sl_frac,
     trades |-> st.trades,
     pnl_linear |-> st.pnl_linear,
     max_drawdown |-> st.max_drawdown,
     equity_final |-> st.equity_final]

\* variant: the last combination is reported only when its count is a multiple
\* of 1000
ReportDueNoLast(cnt, total) == cnt % 1000 = 0
\* lines 408 and 445
ReportDue(cnt, total) == cnt % 1000 = 0 \/ cnt = total
\* round(frac * 100.0, 2), in hundredths of a percent
Percent(cnt, total) == (2 * cnt * 10000 + total) \div (2 * total)

\* lines 384-393
GridStart ==
    /\ gpc = "start"
    /\ total_combos' = TotalCombos
    /\ counter' = 0
    /\ results' = <<>>
    /\ ti' = 1 /\ si' = 1 /\ hj' = 1
    /\ gpc' = IF TotalCombos = 0 THEN "end" ELSE "loop"
    /\ UNCHANGED reports
    /\ UNCHANGED <<dailyVars, svcVars, mainVars, labelVars, cfgVars,
                   inVars, argVars, simVars, callerVars>>

\* lines 395-406: the next combination, handed to the simulator
GridCall ==
    /\ gpc = "loop"
    /\ counter' = counter + 1
    /\ tp_frac' = Linspace(TP_MIN, TP_MAX, TP_STEPS, ti)
    /\ sl_frac' = Linspace(SL_MIN, SL_MAX, SL_STEPS, si)
    /\ horizon_days' = Arange(HORIZON_MIN, HORIZON_MAX, hj)
    /\ pc' = "call"
    /\ gpc' = "wait"
    /\ UNCHANGED <<ti, si, hj, total_combos, results, reports>>
    /\ UNCHANGED <<n, h, i, k, open_pos, still_open, accVars, stats, log>>
    /\ UNCHANGED <<dailyVars, svcVars, mainVars, labelVars, cfgVars, inVars, callerVars>>

\* lines 407-453: skip a None, else append the row; report progress; step the
\* three nested loops
GridCollect ==
    /\ gpc = "wait"
    /\ pc = "returned"
    /\ results' = IF stats = None THEN results ELSE Append(results, Row(stats))
    /\ reports' = IF ReportDue(counter, total_combos)
                  THEN Append(reports, [step |-> counter,
                                        percent |-> Percent(counter, total_combos)])
                  ELSE reports
    /\ IF hj < ArangeLen(HORIZON_MIN, HORIZON_MAX)
       THEN hj' = hj + 1 /\ UNCHANGED <<ti, si>> /\ gpc' = "loop"
       ELSE IF si < SL_STEPS
       THEN hj' = 1 /\ si' = si + 1 /\ UNCHANGED ti /\ gpc' = "loop"
       ELSE IF ti < TP_STEPS
       THEN hj' = 1 /\ si' = 1 /\ ti' = ti + 1 /\ gpc' = "loop"
       ELSE UNCHANGED <<ti, si, hj>> /\ gpc' = "end"
    /\ pc' = "idle"
    /\ UNCHANGED <<counter, total_combos>>
    /\ UNCHANGED <<n, h, i, k, open_pos, still_open, accVars, stats, log>>
    /\ UNCHANGED <<dailyVars, svcVars, mainVars, labelVars, cfgVars,
                   inVars, argVars, callerVars>>

\* lines 455-459: the frame of the rows, empty when there are none
GridReturn ==
    /\ gpc = "end"
    /\ gpc' = "done"
    /\ UNCHANGED <<ti, si, hj, counter, total_combos, results, reports>>
    /\ UNCHANGED <<dailyVars, svcVars, mainVars, labelVars, cfgVars,
                   inVars, argVars, simVars, callerVars>>

GridSeries ==
    {<<FlatBar, FlatBar>>,
     <<FlatBar, Bar(4, 6, 4), Bar(4, 6, 2)>>}

\* a grid run on a frame, for a horizon range given by the configuration
InitGrid ==
    /\ AMBIGUOUS_FILL = "SL_FIRST"
    /\ TOTAL_COST_FRAC = DEFAULT_COST_FRAC
    /\ HORIZON_MIN \in 0..1
    /\ HORIZON_MAX \in 0..MaxGridH
    /\ df \in GridSeries
    /\ days = Len(df) - 1
    /\ tp_frac = 0 /\ sl_frac = 0 /\ horizon_days = 0
    /\ pc = "idle"
    /\ LocalsUnset
    /\ DailyOff
    /\ LabelOff
    /\ runs = 1 /\ first = None /\ saved = None
    /\ MainOff
    /\ ServiceOff
    /\ gpc = "start"
    /\ ti = 1 /\ si = 1 /\ hj = 1
    /\ counter = 0
    /\ total_combos = 0
    /\ results = <<>>
    /\ reports = <<>>

NextGrid == GridStart \/ GridCall \/ GridCollect \/ GridReturn \/ Simulate

SpecGrid == InitGrid /\ [][NextGrid]_vars

Spec == Init /\ [][Next]_vars

NextRerun == Simulate \/ Rerun

SpecRerun == Init /\ [][NextRerun]_vars

\* lines 395-406: the loops hand one combination after the other to the
\* simulator. Here: a combination, then any combination, then the first again.
Args == [tp_frac : TpValues, sl_frac : SlValues, horizon_days : 1..MaxH]
CallOther ==
    /\ pc = "returned"
    /\ gpc = "off"
    /\ runs = 1
    /\ first' = stats
    /\ \E other \in Args :
          /\ saved' = [args |-> [tp_frac |-> tp_frac, sl_frac |-> sl_frac,
                                 horizon_days |-> horizon_days],
                       other |-> other]
          /\ tp_frac' = other.tp_frac
          /\ sl_frac' = other.sl_frac
          /\ horizon_days' = other.horizon_days
    /\ runs' = 2
    /\ pc' = "call"
    /\ UNCHANGED <<n, h, i, k, open_pos, still_open, accVars, stats, log>>
    /\ UNCHANGED <<dailyVars, svcVars, mainVars, labelVars, cfgVars, inVars, gridVars>>

CallAgain ==
    /\ pc = "returned"
    /\ gpc = "off"
    /\ runs = 2
    /\ saved # None
    /\ tp_frac' = saved.args.tp_frac
    /\ sl_frac' = saved.args.sl_frac
    /\ horizon_days' = saved.args.horizon_days
    /\ runs' = 3
    /\ pc' = "call"
    /\ UNCHANGED <<first, saved>>
    /\ UNCHANGED <<n, h, i, k, open_pos, still_open, accVars, stats, log>>
    /\ UNCHANGED <<dailyVars, svcVars, mainVars, labelVars, cfgVars, inVars, gridVars>>

\* combinations on a frame of 3 bars or of too few
InitOrder ==
    /\ Init
    /\ Len(df) \in {2, 3}
    /\ AMBIGUOUS_FILL = "SL_FIRST"

NextOrder == Simulate \/ CallOther \/ CallAgain

SpecOrder == InitOrder /\ [][NextOrder]_vars

\* ------------------------------------- simulate_daily_realized_pnl_parallel
\* lines 518-532: scen of a position on bar ii; out is None, and scen with
\* it, when no level is hit before the expiry bar
DailyScenario(hit_tp, hit_sl, fill, ii, exp) ==
    IF hit_tp /\ hit_sl THEN (IF fill = "TP_FIRST" THEN "TP" ELSE "SL")
    ELSE IF hit_sl THEN "SL"
    ELSE IF hit_tp THEN "TP"
    ELSE IF ii >= exp THEN "FLAT"
    ELSE "None"
\* out of a scenario: +1, -1, 0; None has no number
DailyOutIsZero(scen) == scen = "FLAT"
\* line 534: if out == 0 and i < expiry
DailyStaysOpen(scen, ii, exp) == DailyOutIsZero(scen) /\ ii < exp
\* line 538: tp_frac if out == +1 else (-sl_frac if out == -1 else 0.0)
DailyRawReturn(scen, tp, sl) ==
    IF scen = "TP" THEN tp ELSE IF scen = "SL" THEN -sl ELSE 0
\* lines 539-540
DailyEffR(scen, tp, sl, hh, cost) ==
    Weight(hh) * DailyRawReturn(scen, tp, sl) - Weight(hh) * cost

\* line 561 and the like: the daily simulator is run on the frame and the
\* combination the grid simulator was run on
TimeVisuals ==
    /\ pc = "returned"
    /\ gpc = "off"
    /\ dpc = "off"
    /\ dpc' = "call"
    /\ UNCHANGED <<dn, dh, di, dk, d_open_pos, d_still, daily_realized,
                   daily_scenario, dlog>>
    /\ UNCHANGED <<svcVars, mainVars, labelVars, cfgVars,
                   inVars, argVars, simVars, callerVars,
                   gridVars>>

\* lines 493-506
DailyCall ==
    /\ dpc = "call"
    /\ dn' = Len(df)
    /\ IF Len(df) < 3
       THEN /\ daily_realized' = <<>>
            /\ daily_scenario' = <<>>
            /\ dpc' = "returned"
            /\ UNCHANGED <<dh, di, dk, d_open_pos, d_still, dlog>>
       ELSE /\ dh' = Max(horizon_days, 1)
            /\ d_open_pos' = <<>>
            /\ d_still' = <<>>
            /\ daily_realized' = [x \in 1..Len(df) |-> 0]
            /\ daily_scenario' = [x \in 1..Len(df) |-> ""]
            /\ dlog' = <<>>
            /\ di' = 1
            /\ dk' = 1
            /\ dpc' = "bar"
    /\ UNCHANGED <<svcVars, mainVars, labelVars, cfgVars,
                   inVars, argVars, simVars, callerVars,
                   gridVars>>

\* lines 508-517
DailyOpen ==
    /\ dpc = "bar"
    /\ LET entry == df[di + 1].Open
       IN d_open_pos' = Append(d_open_pos,
              Position(TpLevel(entry, tp_frac), SlLevel(entry, sl_frac),
                       Expiry(di, dh, dn), di))
    /\ d_still' = <<>>
    /\ dk' = 1
    /\ dpc' = "loop"
    /\ UNCHANGED <<dn, dh, di, daily_realized, daily_scenario, dlog>>
    /\ UNCHANGED <<svcVars, mainVars, labelVars, cfgVars,
                   inVars, argVars, simVars, callerVars,
                   gridVars>>

\* lines 518-543: one pass of the loop over open_pos, for its dk-th position
DailyProcess ==
    /\ dpc = "loop"
    /\ dk <= Len(d_open_pos)
    /\ LET p == d_open_pos[dk]
           hit_tp == HitTp(df[di + 1].High, p.tp_level)
           hit_sl == HitSl(df[di + 1].Low, p.sl_level)
           scen == DailyScenario(hit_tp, hit_sl, AMBIGUOUS_FILL, di, p.expiry)
           eff_r == DailyEffR(scen, tp_frac, sl_frac, dh, TOTAL_COST_FRAC)
       IN IF DailyStaysOpen(scen, di, p.expiry)
          THEN /\ d_still' = Append(d_still, p)
               /\ UNCHANGED <<daily_realized, daily_scenario, dlog>>
          ELSE /\ daily_realized' =
                     [daily_realized EXCEPT ![di + 1] = @ + eff_r]
               /\ daily_scenario' = [daily_scenario EXCEPT ![di + 1] = scen]
               /\ dlog' = Append(dlog, [born |-> p.born, bar |-> di, scen |-> scen])
               /\ UNCHANGED d_still
    /\ dk' = dk + 1
    /\ UNCHANGED <<dpc, dn, dh, di, d_open_pos>>
    /\ UNCHANGED <<svcVars, mainVars, labelVars, cfgVars,
                   inVars, argVars, simVars, callerVars,
                   gridVars>>

\* line 545 and the step of the for loop of line 508; lines 547-549 at the end
DailyEndBar ==
    /\ dpc = "loop"
    /\ dk > Len(d_open_pos)
    /\ d_open_pos' = d_still
    /\ di' = di + 1
    /\ dpc' = IF di + 1 < dn THEN "bar" ELSE "returned"
    /\ UNCHANGED <<dn, dh, dk, d_still, daily_realized, daily_scenario, dlog>>
    /\ UNCHANGED <<svcVars, mainVars, labelVars, cfgVars,
                   inVars, argVars, simVars, callerVars,
                   gridVars>>

simulate_daily_realized_pnl_parallel ==
    DailyCall \/ DailyOpen \/ DailyProcess \/ DailyEndBar

NextDaily == Simulate \/ TimeVisuals \/ simulate_daily_realized_pnl_parallel

\* the grid simulator, then the daily simulator, on the same frame and
\* combination
SpecDaily == Init /\ [][NextDaily]_vars

\* ------------------------------------------- the main program after the grid
\* a figure of the asset: u / Unit + p * 1e-13, for a small p
Asset(u, p) == [u |-> u, p |-> p]
\* a figure of a row known as a number: u / Unit
Num(u) == [u |-> u]
\* variant: only an exact zero counts as degenerate
AbsAboveZero(a) == a.u # 0 \/ a.p # 0
\* abs(a) > 1e-12, lines 1786-1788
AbsAboveEps(a) == a.u # 0 \/ Abs(a.p) > RATIO_EPS
\* column / a if abs(a) > 1e-12 else nan, for the value x of the column in one
\* row; a NaN in the column stays NaN; the quotient is kept as its operands
RatioVsAsset(x, a) ==
    IF AbsAboveEps(a)
    THEN IF x = NaN THEN NaN ELSE [num |-> x, den |-> a]
    ELSE NaN

RatLeq(p, q) == p.num * q.den <= q.num * p.den
\* line 134: compounded_cagr >= asset_cagr - CNN_CAGR_TOLERANCE, false on NaN
CagrGeq(c, a, tol) ==
    /\ c # NaN
    /\ \/ c.u > a.u - tol
       \/ c.u = a.u - tol /\ a.p <= 0
\* variant: the trade count has to exceed the minimum
IsCnnCandidateStrict(row, a) ==
    /\ row.trades > CNN_MIN_TRADES
    /\ RatLeq(CNN_MIN_LABEL1, row.label1_ratio)
    /\ RatLeq(row.label1_ratio, CNN_MAX_LABEL1)
    /\ row.spread >= CNN_MIN_SPREAD
    /\ CagrGeq(row.compounded_cagr, a, CNN_CAGR_TOLERANCE)
    /\ row.compounded_cagr # NaN
\* lines 130-137: the mask of mark_cnn_candidates for one row
IsCnnCandidate(row, a) ==
    /\ row.trades >= CNN_MIN_TRADES
    /\ RatLeq(CNN_MIN_LABEL1, row.label1_ratio)
    /\ RatLeq(row.label1_ratio, CNN_MAX_LABEL1)
    /\ row.spread >= CNN_MIN_SPREAD
    /\ CagrGeq(row.compounded_cagr, a, CNN_CAGR_TOLERANCE)
    /\ row.compounded_cagr # NaN
\* lines 138-139: the two columns added to a row
Marked(row, a) ==
    [is_cnn_candidate |-> IsCnnCandidate(row, a),
     cnn_rank_score |-> IF IsCnnCandidate(row, a) THEN row.compounded_cagr ELSE NaN]
    @@ row

\* variant: sort_values(..., ascending=True)
RECURSIVE InsertAscending(_, _)
InsertAscending(sorted, row) ==
    IF sorted = <<>> THEN <<row>>
    ELSE IF Head(sorted).cnn_rank_score.u <= row.cnn_rank_score.u
    THEN <<Head(sorted)>> \o InsertAscending(Tail(sorted), row)
    ELSE <<row>> \o sorted
\* sort_values("cnn_rank_score", ascending=False), as an insertion sort
RECURSIVE InsertDescending(_, _)
InsertDescending(sorted, row) ==
    IF sorted = <<>> THEN <<row>>
    ELSE IF Head(sorted).cnn_rank_score.u >= row.cnn_rank_score.u
    THEN <<Head(sorted)>> \o InsertDescending(Tail(sorted), row)
    ELSE <<row>> \o sorted
RECURSIVE SortValues(_)
SortValues(rows) ==
    IF rows = <<>> THEN <<>>
    ELSE InsertDescending(SortValues(SubSeq(rows, 1, Len(rows) - 1)), rows[Len(rows)])
IsFlagged(row) == row.is_cnn_candidate

\* the row of the frame for a result of the simulator, lines 419-443
MainRow(st) ==
    [tp_frac |-> st.tp_frac,
     sl_frac |-> st.sl_frac,
     horizon_days |-> st.horizon_days,
     spread |-> st.tp_frac - st.sl_frac,
     trades |-> st.trades,
     days |-> st.days,
     pnl_linear |-> st.pnl_linear,
     label1_ratio |-> st.label1_ratio,
     max_drawdown |-> st.max_drawdown,
     sharpe_annual |-> st.sharpe_annual,
     calmar_ratio |-> st.calmar_ratio,
     compounded_cagr |-> st.compounded_cagr]

\* the figures compute_asset_stats_from_df can give: zero, within 1e-12 of
\* zero, just outside, and of the size of a yearly return
AssetCases ==
    {<<Asset(0, 0), Asset(0, 0), Asset(0, 0)>>,
     <<Asset(0, 5), Asset(0, 5), Asset(0, -5)>>,
     <<Asset(0, 11), Asset(0, -10), Asset(0, 11)>>,
     <<Asset(Unit \div 10, 0), Asset(Unit \div 50, 0), Asset(-(Unit \div 50), 0)>>}

\* lines 1776-1784, for a grid of the one combination just simulated
MainCollect ==
    /\ mpc = "off"
    /\ gpc = "off"
    /\ pc = "returned"
    /\ stats # None
    /\ df_res' = <<MainRow(stats)>>
    /\ \E a \in AssetCases :
          /\ asset_total' = a[1]
          /\ asset_annual_lin' = a[2]
          /\ asset_cagr' = a[3]
    /\ mpc' = "ratios"
    /\ UNCHANGED df_cnn
    /\ UNCHANGED <<dailyVars, svcVars, labelVars, cfgVars,
                   inVars, argVars, simVars, callerVars, gridVars>>

\* lines 1786-1788
ComputeRatios ==
    /\ mpc = "ratios"
    /\ df_res' = [x \in DOMAIN df_res |->
                    [ratio_total_vs_asset |->
                         RatioVsAsset(Num(df_res[x].pnl_linear), asset_total),
                     ratio_annual_vs_asset |->
                         RatioVsAsset([pnl_linear |-> df_res[x].pnl_linear,
                                       days |-> df_res[x].days], asset_annual_lin),
                     ratio_cagr_vs_asset |->
                         RatioVsAsset(df_res[x].compounded_cagr, asset_cagr)]
                    @@ df_res[x]]
    /\ mpc' = "mark"
    /\ UNCHANGED <<asset_total, asset_annual_lin, asset_cagr, df_cnn>>
    /\ UNCHANGED <<dailyVars, svcVars, labelVars, cfgVars,
                   inVars, argVars, simVars, callerVars, gridVars>>

\* line 1790: df_res = mark_cnn_candidates(df_res, asset_cagr)
MarkCnnCandidates ==
    /\ mpc = "mark"
    /\ df_res' = [x \in DOMAIN df_res |-> Marked(df_res[x], asset_cagr)]
    /\ mpc' = "export"
    /\ UNCHANGED <<asset_total, asset_annual_lin, asset_cagr, df_cnn>>
    /\ UNCHANGED <<dailyVars, svcVars, labelVars, cfgVars,
                   inVars, argVars, simVars, callerVars, gridVars>>

\* line 1796: the flagged rows, sorted by cnn_rank_score, highest first
ExportCandidates ==
    /\ mpc = "export"
    /\ df_cnn' = SortValues(SelectSeq(df_res, IsFlagged))
    /\ mpc' = "done"
    /\ UNCHANGED <<df_res, asset_total, asset_annual_lin, asset_cagr>>
    /\ UNCHANGED <<dailyVars, svcVars, labelVars, cfgVars,
                   inVars, argVars, simVars, callerVars, gridVars>>

NextMetrics == Simulate \/ MainCollect \/ ComputeRatios

\* one call of the simulator, and the ratios of its row against the asset
SpecMetrics == Init /\ [][NextMetrics]_vars

\* rows as a long grid run leaves them: one that passes every test of
\* mark_cnn_candidates on its boundary, and rows that differ from it in one
\* figure, on either side of each threshold
CaseRow(tr, l1, a, b, cagr, hd) ==
    [tp_frac |-> Linspace(TP_MIN, TP_MAX, TP_STEPS, a),
     sl_frac |-> Linspace(SL_MIN, SL_MAX, SL_STEPS, b),
     horizon_days |-> hd,
     spread |-> Linspace(TP_MIN, TP_MAX, TP_STEPS, a)
                - Linspace(SL_MIN, SL_MAX, SL_STEPS, b),
     trades |-> tr,
     days |-> 1461,
     pnl_linear |-> One \div 10,
     label1_ratio |-> Label1Ratio(l1, tr),
     max_drawdown |-> One,
     sharpe_annual |-> NaN,
     calmar_ratio |-> NaN,
     compounded_cagr |-> cagr]
RowCases ==
    {<<800, 280, 10, 18, Num(-CNN_CAGR_TOLERANCE)>>,
     <<799, 280, 10, 18, Num(-CNN_CAGR_TOLERANCE)>>,
     <<800, 279, 10, 18, Num(-CNN_CAGR_TOLERANCE)>>,
     <<800, 520, 10, 18, Num(-CNN_CAGR_TOLERANCE)>>,
     <<800, 521, 10, 18, Num(-CNN_CAGR_TOLERANCE)>>,
     <<800, 280, 10, 19, Num(-CNN_CAGR_TOLERANCE)>>,
     <<800, 280, 24, 1, Num(-CNN_CAGR_TOLERANCE)>>,
     <<800, 280, 10, 18, Num(-CNN_CAGR_TOLERANCE - 1)>>,
     <<800, 280, 10, 18, Num(0)>>,
     <<800, 280, 10, 18, Num(Unit \div 50)>>,
     <<800, 280, 10, 18, NaN>>,
     <<799, 279, 10, 19, NaN>>,
     <<1200, 420, 24, 1, Num(Unit \div 10)>>}
Frames ==
    UNION {{[x \in 1..m |-> CaseRow(c[x][1], c[x][2], c[x][3], c[x][4], c[x][5], x)] :
               c \in [1..m -> RowCases]} : m \in 1..MaxRows}

\* the main program from the frame of a grid run on
InitMain ==
    /\ AMBIGUOUS_FILL = "SL_FIRST"
    /\ TOTAL_COST_FRAC = DEFAULT_COST_FRAC
    /\ HORIZON_MIN = 1 /\ HORIZON_MAX = MaxH
    /\ df = <<>> /\ days = 0
    /\ tp_frac = 0 /\ sl_frac = 0 /\ horizon_days = 0
    /\ pc = "idle"
    /\ LocalsUnset
    /\ DailyOff
    /\ LabelOff
    /\ runs = 1 /\ first = None /\ saved = None
    /\ GridOff
    /\ ServiceOff
    /\ mpc = "ratios"
    /\ df_res \in Frames
    /\ \E a \in AssetCases :
          /\ asset_total = a[1]
          /\ asset_annual_lin = a[2]
          /\ asset_cagr = a[3]
    /\ df_cnn = <<>>

NextMain == ComputeRatios \/ MarkCnnCandidates \/ ExportCandidates

SpecMain == InitMain /\ [][NextMain]_vars

\* ------------------------------------ backend/app/main.py: the run registry
RunIds == 1..MaxRuns
\* the id under which the analysis of trainer run r is registered
AnalysisRunId(r) == MaxRuns + r
RegistryIds == RunIds \cup {AnalysisRunId(r) : r \in RunIds}
Absent == [absent |-> TRUE]
NoStatus == ""

\* register_run: a new entry, running
Registered == [status |-> "running", stage |-> "starting"]
\* update_run_progress(run_id, progress, stage, message, status): nothing for
\* an unknown run; the status is kept when none is given
UpdateRunProgress(reg, r, stage, status) ==
    IF reg[r] # Absent
    THEN [reg EXCEPT ![r] = [status |-> IF status # NoStatus THEN status
                                        ELSE reg[r].status,
                             stage |-> stage]]
    ELSE reg
\* a step of the task that ends its try block or a handler normally
TaskAt(r, where) == [task EXCEPT ![r].pc = where]
TaskRaised(r, where) == [task EXCEPT ![r].pc = where, ![r].raised = TRUE]

\* what the backend leaves alone: the state of 7.2.py, a process of its own
simSide == <<mainVars, labelVars, cfgVars, inVars, argVars, simVars, callerVars, gridVars,
            dailyVars>>

\* POST /api/labeling-optimizer/run: register the run, queue the task
StartRun(r) ==
    /\ all_runs[r] = Absent
    /\ all_runs' = [all_runs EXCEPT ![r] = Registered]
    /\ task' = [task EXCEPT ![r] = [pc |-> "queued", result |-> "none",
                                    raised |-> FALSE]]
    /\ UNCHANGED progress_json
    /\ UNCHANGED <<toolVars, simSide>>

\* run_labeling_optimizer, before the try: the directories, the first
\* progress.json, the registry; makedirs and open can raise OSError, and then
\* the exception leaves the function
Prepare(r) ==
    /\ task[r].pc = "queued"
    /\ \E ok \in BOOLEAN :
          IF ok
          THEN /\ progress_json' = [progress_json EXCEPT ![r] = "starting"]
               /\ all_runs' = UpdateRunProgress(all_runs, r, "starting", NoStatus)
               /\ task' = TaskAt(r, "try")
          ELSE /\ task' = TaskRaised(r, "raised")
               /\ UNCHANGED <<all_runs, progress_json>>
    /\ UNCHANGED <<toolVars, simSide>>

\* the try block up to the end of subprocess.run: the script is missing, exits
\* with 0 or not, runs into the timeout, or cannot be started
ScriptResults == {"missing", "exit0", "exit1", "timeout", "oserror"}
RunScript(r) ==
    /\ task[r].pc = "try"
    /\ \E res \in ScriptResults :
          /\ task' = [task EXCEPT
                        ![r].pc = CASE res = "exit0" -> "exit0"
                                    [] res = "exit1" -> "exit1"
                                    [] res = "timeout" -> "except_timeout"
                                    [] OTHER -> "except_exception",
                        ![r].result = res,
                        ![r].raised = res \in {"missing", "timeout", "oserror"}]
          /\ progress_json' = IF res = "exit0"
                              THEN [progress_json EXCEPT ![r] = "done"]
                              ELSE progress_json
    /\ UNCHANGED all_runs
    /\ UNCHANGED <<toolVars, simSide>>

\* returncode == 0: copy the charts (shutil.copy2 can raise), then succeeded
Succeeded(r) ==
    /\ task[r].pc = "exit0"
    /\ \E ok \in BOOLEAN :
          IF ok
          THEN /\ all_runs' = UpdateRunProgress(all_runs, r, "completed", "succeeded")
               /\ task' = TaskAt(r, "returned")
          ELSE /\ task' = TaskRaised(r, "except_exception")
               /\ UNCHANGED all_runs
    /\ UNCHANGED progress_json
    /\ UNCHANGED <<toolVars, simSide>>

\* returncode != 0: write the error progress.json (open can raise), then failed
Failed(r) ==
    /\ task[r].pc = "exit1"
    /\ \E ok \in BOOLEAN :
          IF ok
          THEN /\ progress_json' = [progress_json EXCEPT ![r] = "error"]
               /\ all_runs' = UpdateRunProgress(all_runs, r, "error", "failed")
               /\ task' = TaskAt(r, "returned")
          ELSE /\ task' = TaskRaised(r, "except_exception")
               /\ UNCHANGED <<all_runs, progress_json>>
    /\ UNCHANGED <<toolVars, simSide>>

\* except subprocess.TimeoutExpired: write progress.json, then failed; an
\* exception raised in the handler leaves the function
ExceptTimeout(r) ==
    /\ task[r].pc = "except_timeout"
    /\ \E ok \in BOOLEAN :
          IF ok
          THEN /\ progress_json' = [progress_json EXCEPT ![r] = "error"]
               /\ all_runs' = UpdateRunProgress(all_runs, r, "timeout", "failed")
               /\ task' = TaskAt(r, "returned")
          ELSE /\ task' = TaskRaised(r, "raised")
               /\ UNCHANGED <<all_runs, progress_json>>
    /\ UNCHANGED <<toolVars, simSide>>

\* except Exception: the same
ExceptException(r) ==
    /\ task[r].pc = "except_exception"
    /\ \E ok \in BOOLEAN :
          IF ok
          THEN /\ progress_json' = [progress_json EXCEPT ![r] = "error"]
               /\ all_runs' = UpdateRunProgress(all_runs, r, "error", "failed")
               /\ task' = TaskAt(r, "returned")
          ELSE /\ task' = TaskRaised(r, "raised")
               /\ UNCHANGED <<all_runs, progress_json>>
    /\ UNCHANGED <<toolVars, simSide>>

run_labeling_optimizer(r) ==
    \/ Prepare(r) \/ RunScript(r) \/ Succeeded(r) \/ Failed(r)
    \/ ExceptTimeout(r) \/ ExceptException(r)

NextService == \E r \in RunIds : StartRun(r) \/ run_labeling_optimizer(r)

\* the backend with no run yet
InitService ==
    /\ AMBIGUOUS_FILL = "SL_FIRST"
    /\ TOTAL_COST_FRAC = DEFAULT_COST_FRAC
    /\ HORIZON_MIN = 1 /\ HORIZON_MAX = MaxH
    /\ df = <<>> /\ days = 0
    /\ tp_frac = 0 /\ sl_frac = 0 /\ horizon_days = 0
    /\ pc = "idle"
    /\ LocalsUnset
    /\ DailyOff
    /\ LabelOff
    /\ runs = 1 /\ first = None /\ saved = None
    /\ GridOff
    /\ MainOff
    /\ all_runs = [r \in RegistryIds |-> Absent]
    /\ task = [r \in RunIds |-> [pc |-> "none", result |-> "none", raised |-> FALSE]]
    /\ progress_json = [r \in RunIds |-> "none"]
    /\ running_processes = [r \in RunIds |-> None]
    /\ proc = [r \in RunIds |-> "none"]
    /\ trainer_runs = [r \in RegistryIds |-> Absent]
    /\ backtester_runs = [r \in RunIds |-> Absent]
    /\ testdata_runs = [r \in RunIds |-> Absent]
    /\ cancel_returned = [r \in RunIds |-> FALSE]
    /\ analysis_response = [r \in RunIds |-> [code |-> 0, phase |-> "none"]]

SpecService == InitService /\ [][NextService]_vars


\* ------------------------- backend/app/main.py: the training chart generator
\* read_progress_file: the phase of progress.json, "starting" when the file is
\* missing
ReadProgressFile(r) ==
    IF progress_json[r] = "none" THEN "starting" ELSE progress_json[r]
\* update_progress of run_training_chart_generator: progress.json and the
\* stage of the registry entry
GeneratorProgress(r, phase) == [progress_json EXCEPT ![r] = phase]

\* what the chart generator's actions leave alone
generatorFrame == <<running_processes, trainer_runs, backtester_runs, testdata_runs,
                    analysis_response, simSide>>

\* POST /runs/training-chart-generator/start: register the run, make its
\* directory, write the first progress.json, queue the task
StartGenerator(r) ==
    /\ all_runs[r] = Absent
    /\ all_runs' = [all_runs EXCEPT ![r] = Registered]
    /\ progress_json' = GeneratorProgress(r, "starting")
    /\ task' = [task EXCEPT ![r] = [pc |-> "gen_queued", result |-> "none",
                                    raised |-> FALSE]]
    /\ UNCHANGED <<proc, cancel_returned, generatorFrame>>

\* run_training_chart_generator, before the try: the first progress.json
GenPrepare(r) ==
    /\ task[r].pc = "gen_queued"
    /\ progress_json' = GeneratorProgress(r, "starting")
    /\ task' = TaskAt(r, "gen_try")
    /\ UNCHANGED <<all_runs, proc, cancel_returned, generatorFrame>>

\* update_progress("Initializing", 5), then subprocess.run starts the script;
\* the child is held by subprocess.run alone, nothing enters running_processes
GenLaunch(r) ==
    /\ task[r].pc = "gen_try"
    /\ progress_json' = GeneratorProgress(r, "Initializing")
    /\ all_runs' = UpdateRunProgress(all_runs, r, "Initializing", NoStatus)
    /\ proc' = [proc EXCEPT ![r] = "running"]
    /\ task' = TaskAt(r, "gen_wait")
    /\ UNCHANGED <<cancel_returned, generatorFrame>>

\* 1.3_Adj_TrL.py, ProgressWriter.update: the script writes the progress.json
\* of its --progress_dir, the run directory, while it runs
ScriptProgress(r) ==
    /\ proc[r] = "running"
    /\ progress_json' = GeneratorProgress(r, "generating_charts")
    /\ UNCHANGED <<all_runs, task, proc, cancel_returned, generatorFrame>>

\* subprocess.run returns or raises TimeoutExpired (the child is killed); the
\* timeout handler reports the error and marks the run failed
GeneratorResults == {"exit0", "exit1", "timeout"}
GenExit(r) ==
    /\ task[r].pc = "gen_wait"
    /\ \E res \in GeneratorResults :
          /\ task' = [task EXCEPT ![r].pc = "gen_exited", ![r].result = res]
          /\ IF res = "timeout"
             THEN /\ progress_json' = GeneratorProgress(r, "error")
                  /\ all_runs' = UpdateRunProgress(all_runs, r, "timeout", "failed")
             ELSE UNCHANGED <<progress_json, all_runs>>
    /\ proc' = [proc EXCEPT ![r] = "exited"]
    /\ UNCHANGED <<cancel_returned, generatorFrame>>

\* the final progress by return code: "done" and succeeded, or "error" and
\* failed, and then the function returns
GenFinalStatus(r) ==
    /\ task[r].pc = "gen_exited"
    /\ IF task[r].result = "exit0"
       THEN /\ progress_json' = GeneratorProgress(r, "done")
            /\ all_runs' = UpdateRunProgress(all_runs, r, "completed", "succeeded")
            /\ task' = TaskAt(r, "gen_collect")
       ELSE /\ progress_json' = GeneratorProgress(r, "error")
            /\ all_runs' = UpdateRunProgress(all_runs, r, "error", "failed")
            /\ task' = TaskAt(r, "returned")
    /\ UNCHANGED <<proc, cancel_returned, generatorFrame>>

\* update_progress("Processing generated charts", 70)
GenCollect(r) ==
    /\ task[r].pc = "gen_collect"
    /\ progress_json' = GeneratorProgress(r, "Processing generated charts")
    /\ all_runs' = UpdateRunProgress(all_runs, r, "Processing generated charts",
                                     NoStatus)
    /\ task' = TaskAt(r, "gen_zip")
    /\ UNCHANGED <<proc, cancel_returned, generatorFrame>>

\* update_progress("Creating ZIP archive", 90)
GenZip(r) ==
    /\ task[r].pc = "gen_zip"
    /\ progress_json' = GeneratorProgress(r, "Creating ZIP archive")
    /\ all_runs' = UpdateRunProgress(all_runs, r, "Creating ZIP archive", NoStatus)
    /\ task' = TaskAt(r, "gen_final")
    /\ UNCHANGED <<proc, cancel_returned, generatorFrame>>

\* dataset_stats.json and the final progress.json, phase "done"
GenDone(r) ==
    /\ task[r].pc = "gen_final"
    /\ progress_json' = GeneratorProgress(r, "done")
    /\ task' = TaskAt(r, "returned")
    /\ UNCHANGED <<all_runs, proc, cancel_returned, generatorFrame>>

run_training_chart_generator(r) ==
    \/ GenPrepare(r) \/ GenLaunch(r) \/ GenExit(r) \/ GenFinalStatus(r)
    \/ GenCollect(r) \/ GenZip(r) \/ GenDone(r)

\* POST /runs/training-chart-generator/{run_id}/cancel: 404 without a run
\* directory; a process found in running_processes is terminated and removed;
\* progress.json is overwritten with phase "cancelled"
cancel_training_chart_generator(r) ==
    /\ progress_json[r] # "none"
    /\ IF running_processes[r] # None
       THEN /\ proc' = [proc EXCEPT ![r] = "exited"]
            /\ running_processes' = [running_processes EXCEPT ![r] = None]
       ELSE UNCHANGED <<proc, running_processes>>
    /\ progress_json' = GeneratorProgress(r, "cancelled")
    /\ cancel_returned' = [cancel_returned EXCEPT ![r] = TRUE]
    /\ UNCHANGED <<all_runs, task, trainer_runs, backtester_runs, testdata_runs,
                   analysis_response, simSide>>

\* ------------------------------------ backend/app/main.py: the trainer
\* an entry of trainer_runs, backtester_runs or testdata_runs: its status and
\* the phase of its progress
Entry(status, phase) == [status |-> status, phase |-> phase]

\* POST /trainer/runs: register the run, create its entry, queue run_trainer
start_trainer(r) ==
    /\ all_runs[r] = Absent
    /\ all_runs' = [all_runs EXCEPT ![r] = Registered]
    /\ trainer_runs' = [trainer_runs EXCEPT ![r] = Entry("running", "starting")]
    /\ task' = [task EXCEPT ![r] = [pc |-> "trainer_running", result |-> "none",
                                    raised |-> FALSE]]
    /\ UNCHANGED <<progress_json, running_processes, proc, backtester_runs,
                   testdata_runs, cancel_returned, analysis_response, simSide>>

\* progress_callback of start_trainer: the progress of the entry and the
\* stage of the registry entry; the status of neither is touched
TrainerCallback(runs_, r, phase) == [runs_ EXCEPT ![r].phase = phase]

\* run_trainer reports a phase; after "done" it returns, after "error" it
\* raises again
TrainerPhases == {"training", "saving", "done", "error"}
run_trainer(r) ==
    /\ task[r].pc = "trainer_running"
    /\ \E phase \in TrainerPhases :
          /\ trainer_runs' = TrainerCallback(trainer_runs, r, phase)
          /\ all_runs' = UpdateRunProgress(all_runs, r, phase, NoStatus)
          /\ task' = CASE phase = "done" -> [task EXCEPT ![r].pc = "returned",
                                                         ![r].result = "done"]
                       [] phase = "error" -> TaskRaised(r, "raised")
                       [] OTHER -> task
    /\ UNCHANGED <<progress_json, running_processes, proc, backtester_runs,
                   testdata_runs, cancel_returned, analysis_response, simSide>>

\* POST /trainer/runs/{run_id}/analysis: 404 for an unknown run, 400 unless
\* the entry's status is "done"; otherwise the analysis is registered under
\* its own id, gets its own entry and is answered with 200
start_trainer_analysis(r) ==
    /\ IF trainer_runs[r] = Absent
       THEN /\ analysis_response' = [analysis_response EXCEPT
                                       ![r] = [code |-> 404, phase |-> "none"]]
            /\ UNCHANGED <<all_runs, trainer_runs>>
       ELSE IF trainer_runs[r].status # "done"
       THEN /\ analysis_response' = [analysis_response EXCEPT
                       ![r] = [code |-> 400, phase |-> trainer_runs[r].phase]]
            /\ UNCHANGED <<all_runs, trainer_runs>>
       ELSE /\ analysis_response' = [analysis_response EXCEPT
                       ![r] = [code |-> 200, phase |-> trainer_runs[r].phase]]
            /\ all_runs' = [all_runs EXCEPT ![AnalysisRunId(r)] = Registered]
            /\ trainer_runs' = [trainer_runs EXCEPT
                                  ![AnalysisRunId(r)] = Entry("running", "starting")]
    /\ UNCHANGED <<task, progress_json, running_processes, proc, backtester_runs,
                   testdata_runs, cancel_returned, simSide>>

\* ------------- backend/app/main.py: the backtester and the test-data generator
\* the status that update_backtester_progress and update_testdata_progress
\* derive from the phase
StatusOfPhase(phase) ==
    IF phase = "done" THEN "done"
    ELSE IF phase = "error" THEN "failed"
    ELSE "running"

\* POST /runs/backtester/start
start_backtester_run(r) ==
    /\ all_runs[r] = Absent
    /\ all_runs' = [all_runs EXCEPT ![r] = Registered]
    /\ backtester_runs' = [backtester_runs EXCEPT
                             ![r] = Entry("running", "starting")]
    /\ task' = [task EXCEPT ![r] = [pc |-> "backtester_running", result |-> "none",
                                    raised |-> FALSE]]
    /\ UNCHANGED <<progress_json, running_processes, proc, trainer_runs,
                   testdata_runs, cancel_returned, analysis_response, simSide>>

\* run_backtester reports a phase through update_backtester_progress, which
\* acts for a known run only; "done" and "error" are its last reports
BacktesterPhases == {"running", "processing", "done", "error"}
update_backtester_progress(r) ==
    /\ task[r].pc = "backtester_running"
    /\ \E phase \in BacktesterPhases :
          /\ IF backtester_runs[r] # Absent
             THEN /\ backtester_runs' = [backtester_runs EXCEPT
                                ![r] = Entry(StatusOfPhase(phase), phase)]
                  /\ all_runs' = UpdateRunProgress(all_runs, r, phase,
                                                   StatusOfPhase(phase))
             ELSE UNCHANGED <<backtester_runs, all_runs>>
          /\ task' = IF phase \in {"done", "error"}
                     THEN [task EXCEPT ![r].pc = "returned", ![r].result = phase]
                     ELSE task
    /\ UNCHANGED <<progress_json, running_processes, proc, trainer_runs,
                   testdata_runs, cancel_returned, analysis_response, simSide>>

\* POST /runs/testdata/start
start_testdata_run(r) ==
    /\ all_runs[r] = Absent
    /\ all_runs' = [all_runs EXCEPT ![r] = Registered]
    /\ testdata_runs' = [testdata_runs EXCEPT ![r] = Entry("running", "starting")]
    /\ task' = [task EXCEPT ![r] = [pc |-> "testdata_running", result |-> "none",
                                    raised |-> FALSE]]
    /\ UNCHANGED <<progress_json, running_processes, proc, trainer_runs,
                   backtester_runs, cancel_returned, analysis_response, simSide>>

\* run_testdata_generator reports a phase through update_testdata_progress
TestdataPhases == {"generating", "processing", "done", "error"}
update_testdata_progress(r) ==
    /\ task[r].pc = "testdata_running"
    /\ \E phase \in TestdataPhases :
          /\ IF testdata_runs[r] # Absent
             THEN /\ testdata_runs' = [testdata_runs EXCEPT
                                ![r] = Entry(StatusOfPhase(phase), phase)]
                  /\ all_runs' = UpdateRunProgress(all_runs, r, phase,
                                                   StatusOfPhase(phase))
             ELSE UNCHANGED <<testdata_runs, all_runs>>
          /\ task' = IF phase \in {"done", "error"}
                     THEN [task EXCEPT ![r].pc = "returned", ![r].result = phase]
                     ELSE task
    /\ UNCHANGED <<progress_json, running_processes, proc, trainer_runs,
                   backtester_runs, cancel_returned, analysis_response, simSide>>

\* every tool of the backend, each run started by one of them
NextBackend ==
    \E r \in RunIds :
        \/ StartRun(r) \/ run_labeling_optimizer(r)
        \/ StartGenerator(r) \/ run_training_chart_generator(r)
        \/ ScriptProgress(r) \/ cancel_training_chart_generator(r)
        \/ start_trainer(r) \/ run_trainer(r) \/ start_trainer_analysis(r)
        \/ start_backtester_run(r) \/ update_backtester_progress(r)
        \/ start_testdata_run(r) \/ update_testdata_progress(r)

SpecBackend == InitService /\ [][NextBackend]_vars

\* ------------------ 1.3_Adj_TrL.py, 1.4_Adj_testL.py: the label of a chart
\* the windows of future bars handed to the label function
FutureWindows == UNION {[1..len -> BarShapes] : len \in 0..MaxBars}

\* the tuple (label, hit_price, which, hit_date) the function returns; the
\* date of a bar is its position in the window
LabelTuple(label, hit_price, which, hit_date) ==
    [label |-> label, hit_price |-> hit_price, which |-> which,
     hit_date |-> hit_date]
\* one bar of the walk, TP tested before SL
LabelOfBarTpFirst(hi, lo, tpL, slL) ==
    IF hi * Unit >= tpL THEN "TP" ELSE IF lo * Unit <= slL THEN "SL" ELSE "None"
\* one bar of the walk: SL is tested first, then TP
LabelOfBar(hi, lo, tpL, slL) ==
    IF lo * Unit <= slL THEN "SL" ELSE IF hi * Unit >= tpL THEN "TP" ELSE "None"

\* the function up to its loop: nothing to label without a chart or a future
\* window; else the entry at the first future bar's Open and the two levels
LabelEnter ==
    /\ lab_pc = "call"
    /\ IF data_empty \/ future_data = <<>>
       THEN /\ lab_ret' = LabelTuple(None, None, "None", None)
            /\ lab_pc' = "returned"
            /\ UNCHANGED <<lab_entry_price, lab_tp_level, lab_sl_level, lab_j>>
       ELSE /\ lab_entry_price' = future_data[1].Open
            /\ lab_tp_level' = future_data[1].Open * (Unit + lab_f)
            /\ lab_sl_level' = future_data[1].Open * (Unit - lab_s)
            /\ lab_j' = 1
            /\ lab_pc' = "loop"
            /\ UNCHANGED lab_ret
    /\ UNCHANGED <<data_empty, future_data, lab_f, lab_s>>
    /\ UNCHANGED <<dailyVars, svcVars, mainVars, cfgVars, inVars, argVars, simVars,
                   callerVars, gridVars>>

\* one iteration of the walk through the future bars, the entry bar included
LabelBar ==
    /\ lab_pc = "loop"
    /\ lab_j <= Len(future_data)
    /\ LET row == future_data[lab_j]
           which == LabelOfBar(row.High, row.Low, lab_tp_level, lab_sl_level)
       IN  CASE which = "SL" ->
                  /\ lab_ret' = LabelTuple(Num(0), Num(lab_sl_level), "SL", Num(lab_j))
                  /\ lab_pc' = "returned"
                  /\ UNCHANGED lab_j
             [] which = "TP" ->
                  /\ lab_ret' = LabelTuple(Num(1), Num(lab_tp_level), "TP", Num(lab_j))
                  /\ lab_pc' = "returned"
                  /\ UNCHANGED lab_j
             [] OTHER ->
                  /\ lab_j' = lab_j + 1
                  /\ UNCHANGED <<lab_ret, lab_pc>>
    /\ UNCHANGED <<data_empty, future_data, lab_f, lab_s, lab_entry_price,
                   lab_tp_level, lab_sl_level>>
    /\ UNCHANGED <<dailyVars, svcVars, mainVars, cfgVars, inVars, argVars, simVars,
                   callerVars, gridVars>>

\* the walk is over and neither level was hit
LabelNeither ==
    /\ lab_pc = "loop"
    /\ lab_j > Len(future_data)
    /\ lab_ret' = LabelTuple(Num(0), None, "None", None)
    /\ lab_pc' = "returned"
    /\ UNCHANGED <<data_empty, future_data, lab_f, lab_s, lab_entry_price,
                   lab_tp_level, lab_sl_level, lab_j>>
    /\ UNCHANGED <<dailyVars, svcVars, mainVars, cfgVars, inVars, argVars, simVars,
                   callerVars, gridVars>>

tp_first_else_zero_from_next_open == LabelEnter \/ LabelBar \/ LabelNeither

\* one call of the label function on any chart, window and pair of fractions
InitLabel ==
    /\ AMBIGUOUS_FILL = "SL_FIRST"
    /\ TOTAL_COST_FRAC = DEFAULT_COST_FRAC
    /\ HORIZON_MIN = 1 /\ HORIZON_MAX = MaxH
    /\ df = <<>> /\ days = 0
    /\ tp_frac = 0 /\ sl_frac = 0 /\ horizon_days = 0
    /\ pc = "idle"
    /\ LocalsUnset
    /\ DailyOff
    /\ runs = 1 /\ first = None /\ saved = None
    /\ GridOff
    /\ MainOff
    /\ ServiceOff
    /\ lab_pc = "call"
    /\ data_empty \in BOOLEAN
    /\ future_data \in FutureWindows
    /\ lab_f \in TpValues
    /\ lab_s \in SlValues
    /\ lab_entry_price = 0 /\ lab_tp_level = 0 /\ lab_sl_level = 0
    /\ lab_j = 0
    /\ lab_ret = None

SpecLabel == InitLabel /\ [][tp_first_else_zero_from_next_open]_vars

\* ------------------------------------------------------------ properties
NumOut(o) == Cardinality({x \in 1..Len(log) : log[x].out = o})
Returned == pc = "returned" /\ stats # None

\* the positions open right now: during the pass over open_pos, those kept so
\* far and those not yet examined
OpenSet ==
    IF pc = "loop"
    THEN {still_open[x] : x \in 1..Len(still_open)}
         \cup {open_pos[x] : x \in k..Len(open_pos)}
    ELSE {open_pos[x] : x \in 1..Len(open_pos)}

\* what the specification says a resolution with outcome o adds to the
\* linear P&L: w * r - w * TOTAL_COST_FRAC, w = 1 / horizon_days
SpecEffR(o) ==
    LET r == CASE o = 1 -> tp_frac [] o = -1 -> -sl_frac [] OTHER -> 0
    IN (HL \div horizon_days) * r - (HL \div horizon_days) * TOTAL_COST_FRAC

RECURSIVE SumSpecEffR(_, _)
SumSpecEffR(lg, counted) ==
    IF lg = <<>> THEN 0
    ELSE (IF Head(lg).out \in counted THEN SpecEffR(Head(lg).out) ELSE 0)
         + SumSpecEffR(Tail(lg), counted)

\* C1: equity_lin and equity_comp are >= 0 after every position resolution,
\* for every combination, horizon and price path.
C1_EquityFloor == equity_lin >= 0 /\ equity_comp.s >= 0

\* an all-SL path on which both floors have acted
C1_Witness ==
    /\ Returned
    /\ Len(log) >= 2
    /\ \A x \in 1..Len(log) : log[x].out = -1
    /\ equity_lin = 0
    /\ equity_comp = CompZero
    /\ pnl_linear_sum < -One

\* C2: a position whose bar reaches both its TP and its SL level resolves on
\* that bar by the configured policy: SL (return -sl_frac, no TP counted)
\* under "SL_FIRST", TP (return tp_frac, one TP counted) under "TP_FIRST"; it
\* is not kept open and does not resolve flat.
C2_AmbiguousFill ==
    [][(/\ pc = "loop"
        /\ k <= Len(open_pos)
        /\ HitTp(df[i + 1].High, open_pos[k].tp_level)
        /\ HitSl(df[i + 1].Low, open_pos[k].sl_level))
       => /\ still_open' = still_open
          /\ Len(log') = Len(log) + 1
          /\ trades' = trades + 1
          /\ IF AMBIGUOUS_FILL = "TP_FIRST"
             THEN /\ log'[Len(log')].out = 1
                  /\ pnl_linear_sum' - pnl_linear_sum = SpecEffR(1)
                  /\ label1_count' = label1_count + 1
             ELSE /\ log'[Len(log')].out = -1
                  /\ pnl_linear_sum' - pnl_linear_sum = SpecEffR(-1)
                  /\ label1_count' = label1_count]_vars

\* an ambiguous bar resolved as TP under the optimistic policy
C2_Witness ==
    /\ AMBIGUOUS_FILL = "TP_FIRST"
    /\ Len(log) > 0
    /\ log[Len(log)].hit_tp /\ log[Len(log)].hit_sl
    /\ log[Len(log)].out = 1

\* C3: once bar min(j + h - 1, n - 1) has been processed, the position opened
\* at bar j is no longer open.  Between bars, i - 1 is the last bar processed.
C3_ExpiryDeadline ==
    pc \in {"bar", "post"} =>
        \A p \in OpenSet : Min(p.born + h - 1, n - 1) > i - 1

\* a position that lived its whole horizon of 2 or more bars and expired before
\* the last bar, and one cut short by the end of the series
C3_Witness ==
    /\ pc = "post"
    /\ h >= 2
    /\ \E x \in 1..Len(log) :
          /\ log[x].out = 0
          /\ log[x].bar = log[x].born + h - 1
          /\ log[x].bar < n - 1
    /\ \E x \in 1..Len(log) :
          /\ log[x].out = 0
          /\ log[x].bar = n - 1
          /\ log[x].bar < log[x].born + h - 1

\* C4: trades is the number of TP and SL resolutions so far; a flat expiry
\* leaves it alone, and the expired position is out of the open set.
C4_TradesCount ==
    /\ trades = NumOut(1) + NumOut(-1)
    /\ \A x \in 1..Len(log) : \A p \in OpenSet : p.born # log[x].born

\* a run with a TP, an SL and a flat expiry
C4_Witness ==
    /\ Returned
    /\ NumOut(1) > 0 /\ NumOut(-1) > 0 /\ NumOut(0) > 0

\* C5 as stated: trades_per_year is computed from a tally that counts the flat
\* expiries: every resolution over the years.
C5_FlatInTally ==
    Returned => stats.trades_per_year = Rat(Len(log) * 1461, 4 * days)

\* C5, amended: trades_per_year is the number of TP and SL resolutions over the
\* years; flat expiries are in neither that tally nor the mean of the
\* accumulator, which is the mean of eff_r over the TP and SL resolutions.
C5_FlatNotInTally ==
    Returned =>
        /\ stats.trades_per_year = Rat((NumOut(1) + NumOut(-1)) * 1461, 4 * days)
        /\ stats.trades = NumOut(1) + NumOut(-1)
        /\ stats.pnl_per_trade.num * stats.trades
             = SumSpecEffR(log, {1, -1}) * stats.pnl_per_trade.den

\* a finished run with trades and with flat expiries
C5_Witness ==
    /\ Returned
    /\ NumOut(0) > 0
    /\ stats.trades > 0

\* C6: every resolution, flat ones included, adds w * r - w * TOTAL_COST_FRAC
\* to the linear P&L sum.
C6_LinearPnl == pnl_linear_sum = SumSpecEffR(log, {1, -1, 0})

\* a run in which a flat expiry has been charged its cost
C6_Witness ==
    /\ Returned
    /\ NumOut(0) > 0
    /\ NumOut(1) + NumOut(-1) > 0
    /\ TOTAL_COST_FRAC > 0


\* the case of C7: a 10-bar series on which all nine positions have resolved,
\* exactly one by TP, on the bar after the one it was opened on, and all the
\* others flat
SingleTpCase ==
    /\ Returned
    /\ Len(df) = 10
    /\ Len(log) = 9
    /\ NumOut(1) = 1
    /\ NumOut(0) = 8
    /\ \E x \in 1..Len(log) : log[x].out = 1 /\ log[x].bar = log[x].born + 1

\* C7 as stated: in that case the run returns trades = 1, label1_ratio = 1.0,
\* max_drawdown = 0 and pnl_linear_pct = tp_frac * weight * 100 minus the
\* configured cost fraction.
C7_SingleTpAsStated ==
    SingleTpCase =>
        /\ stats.trades = 1
        /\ stats.label1_ratio = Rat(1, 1)
        /\ stats.max_drawdown = 0
        /\ stats.pnl_linear_pct = 100 * Weight(h) * tp_frac - HL * TOTAL_COST_FRAC

\* C7, amended: in that case the run returns trades = 1, label1_ratio = 1.0 and
\* pnl_linear_pct = 100 * weight * (tp_frac - 9 * TOTAL_COST_FRAC), every one of
\* the nine resolutions being charged weight * TOTAL_COST_FRAC; max_drawdown is
\* 0 exactly when TOTAL_COST_FRAC is 0.
C7_SingleTp ==
    SingleTpCase =>
        /\ stats.trades = 1
        /\ stats.label1_ratio = Rat(1, 1)
        /\ stats.pnl_linear_pct
             = 100 * (HL \div horizon_days) * (tp_frac - 9 * TOTAL_COST_FRAC)
        /\ (stats.max_drawdown = 0) <=> (TOTAL_COST_FRAC = 0)

\* the case with the default cost and a horizon of 2 or more bars
C7_Witness ==
    /\ SingleTpCase
    /\ TOTAL_COST_FRAC = DEFAULT_COST_FRAC
    /\ h >= 2
    /\ stats.max_drawdown > 0

\* C8: a second run of the simulator on the same series with the same
\* arguments and configuration returns the same result, field by field.
C8_SameResult == (runs = 2 /\ pc = "returned") => stats = first

\* a second run that resolved positions of every kind
C8_Witness ==
    /\ runs = 2
    /\ Returned
    /\ first # None
    /\ NumOut(1) > 0 /\ NumOut(-1) > 0 /\ NumOut(0) > 0

\* C9: the simulator returns None exactly when the series has fewer than 3
\* bars; the grid run then appends no row for the combination and goes on to
\* the remaining combinations, all of which it evaluates.
C9_InsufficientData ==
    /\ pc = "returned" => ((stats = None) <=> (Len(df) < 3))
    /\ Len(df) < 3 => results = <<>>
    /\ (Len(df) >= 3 /\ gpc \in {"loop", "end", "done"}) => Len(results) = counter
    /\ gpc \in {"end", "done"} =>
          counter = TP_STEPS * SL_STEPS * ArangeLen(HORIZON_MIN, HORIZON_MAX)

\* a grid run on a 2-bar series that went through all combinations, each one
\* skipped
C9_Witness ==
    /\ gpc = "done"
    /\ Len(df) < 3
    /\ counter = TP_STEPS * SL_STEPS * 2
    /\ results = <<>>

RowTriple(r) == <<r.tp_frac, r.sl_frac, r.horizon_days>>
RowTriples == {RowTriple(results[x]) : x \in 1..Len(results)}
GridTriples ==
    {<<Linspace(TP_MIN, TP_MAX, TP_STEPS, a), Linspace(SL_MIN, SL_MAX, SL_STEPS, b),
       Arange(HORIZON_MIN, HORIZON_MAX, c)>> :
        a \in 1..TP_STEPS, b \in 1..SL_STEPS,
        c \in 1..ArangeLen(HORIZON_MIN, HORIZON_MAX)}
\* the rows so far are rows of distinct triples of the grid, and at the end
\* there are 25 * 25 * W of them, W the number of horizons in range
GridComplete ==
    /\ RowTriples \subseteq GridTriples
    /\ Cardinality(RowTriples) = Len(results)
    /\ gpc = "done" => Len(results) = 25 * 25 * ArangeLen(HORIZON_MIN, HORIZON_MAX)

\* C10: on a series of 3 or more bars the grid run returns 25 * 25 * W rows for
\* a horizon range of W integers, one row for each triple of the grid, none
\* repeated and none missing.
C10_GridComplete == Len(df) >= 3 => GridComplete

\* the same for the horizon ranges that hold positive integers only
GridCompletePositive == (Len(df) >= 3 /\ HORIZON_MIN >= 1) => GridComplete

\* a configuration the grid cannot be built from: a horizon range whose upper
\* bound is below its lower bound, or that holds a non-positive horizon
InvalidConfig == HORIZON_MAX < HORIZON_MIN \/ HORIZON_MIN <= 0

\* C11: with invalid grid bounds (a maximum below its minimum) or a
\* non-positive horizon the run stops with a fatal configuration error before
\* any combination is simulated: no combination is counted, handed to the
\* simulator or turned into a row.
C11_ConfigRejected ==
    InvalidConfig => /\ counter = 0
                     /\ gpc \in {"start", "error"}
                     /\ pc = "idle"
                     /\ results = <<>>

Marking == mpc \in {"export", "done"}

\* the five conditions of the selection, from the figures of the row
MeetsSelection(row) ==
    /\ row.trades >= 800
    /\ 35 * row.label1_ratio.den <= 100 * row.label1_ratio.num
    /\ 100 * row.label1_ratio.num <= 65 * row.label1_ratio.den
    /\ 100 * (row.tp_frac - row.sl_frac) >= Unit
    /\ row.compounded_cagr # NaN
    /\ LET floor == 50 * asset_cagr.u - Unit
       IN \/ 50 * row.compounded_cagr.u > floor
          \/ 50 * row.compounded_cagr.u = floor /\ asset_cagr.p <= 0

\* C12: mark_cnn_candidates flags a row exactly when trades >= CNN_MIN_TRADES
\* (inclusive), CNN_MIN_LABEL1 <= label1_ratio <= CNN_MAX_LABEL1 (both
\* inclusive), tp_frac - sl_frac >= CNN_MIN_SPREAD, compounded_cagr >=
\* asset_cagr - CNN_CAGR_TOLERANCE, and compounded_cagr is not NaN.
C12_CandidateIff ==
    Marking => \A x \in 1..Len(df_res) :
                  df_res[x].is_cnn_candidate <=> MeetsSelection(df_res[x])

\* a frame with a row flagged on every boundary at once, next to a row that
\* misses the trade minimum by one and is not flagged
C12_Witness ==
    /\ Marking
    /\ Len(df_res) = 2
    /\ asset_cagr = Asset(0, 0)
    /\ df_res[1].is_cnn_candidate
    /\ df_res[1].trades = 800
    /\ df_res[1].label1_ratio = Rat(35, 100)
    /\ df_res[1].spread = Unit \div 100
    /\ df_res[1].compounded_cagr = Num(-(Unit \div 50))
    /\ ~df_res[2].is_cnn_candidate
    /\ df_res[2].trades = 799
    /\ df_res[2].compounded_cagr = df_res[1].compounded_cagr

FlaggedRows == {df_res[x] : x \in {y \in 1..Len(df_res) : df_res[y].is_cnn_candidate}}
ExportedRows == {df_cnn[x] : x \in 1..Len(df_cnn)}

\* C13: the exported candidate list contains exactly the rows flagged
\* is_cnn_candidate, each once, ordered by compounded_cagr from highest to
\* lowest (non-increasing).
C13_ExportSorted ==
    mpc = "done" =>
        /\ ExportedRows = FlaggedRows
        /\ Len(df_cnn) = Cardinality(FlaggedRows)
        /\ \A x \in 1..Len(df_cnn) - 1 :
              df_cnn[x].compounded_cagr.u >= df_cnn[x + 1].compounded_cagr.u

\* two flagged rows that the frame holds lowest first and the list highest
\* first
C13_Witness ==
    /\ mpc = "done"
    /\ Len(df_cnn) = 2
    /\ df_cnn[1] = df_res[2]
    /\ df_cnn[2] = df_res[1]
    /\ df_cnn[1].compounded_cagr.u > df_cnn[2].compounded_cagr.u

SetMax(S) == CHOOSE m \in S : \A x \in S : x <= m
\* the running peak of equity_lin up to and including the x-th resolution,
\* starting from 1.0
PeakAt(x) == SetMax({One} \cup {log[y].eq : y \in 1..x})
\* the largest drop of equity_lin below its running peak over the resolutions
LargestDrop == SetMax({PeakAt(x) - log[x].eq : x \in 1..Len(log)})

\* C14: max_drawdown equals min(1.0, D), D the largest value over all position
\* resolutions of (running peak of equity_lin so far, starting at 1.0) minus
\* (equity_lin after that resolution); hence 0 <= max_drawdown <= 1.
C14_MaxDrawdown ==
    Returned => /\ stats.max_drawdown = Min(One, LargestDrop)
                /\ 0 <= stats.max_drawdown
                /\ stats.max_drawdown <= One

\* equity_lin rose above 1.0 and then fell by more than 1.0: the cap acted
C14_Witness ==
    /\ Returned
    /\ LargestDrop > One
    /\ stats.max_drawdown = One
    /\ \E x \in 1..Len(log) : log[x].eq > One

\* the standard deviation of the TP and SL returns is zero: they are all equal
NoSpread ==
    \A x, y \in {z \in 1..Len(log) : log[z].out # 0} : log[x].eff_r = log[y].eff_r
WithinEps(a) == a.u = 0 /\ a.p >= -10 /\ a.p <= 10

\* C15: no degenerate division raises an error; each yields NaN or the default
\* in the row: sharpe_annual is undefined with fewer than 2 trades or
\* std_r = 0, calmar_ratio is undefined when max_drawdown = 0, label1_ratio is
\* 0 when trades = 0, and ratio_annual / ratio_cagr are undefined when the
\* asset denominator is within 1e-12 of zero.
C15_DegenerateDivisions ==
    /\ Returned =>
          /\ (stats.trades < 2 \/ NoSpread) => stats.sharpe_annual = NaN
          /\ stats.max_drawdown = 0 => stats.calmar_ratio = NaN
          /\ stats.trades = 0 => stats.label1_ratio = Rat(0, 1)
          /\ Raised \notin {stats.sharpe_annual, stats.calmar_ratio,
                            stats.label1_ratio, stats.trades_per_year}
    /\ mpc = "mark" =>
          \A x \in 1..Len(df_res) :
             /\ WithinEps(asset_annual_lin) => df_res[x].ratio_annual_vs_asset = NaN
             /\ WithinEps(asset_cagr) => df_res[x].ratio_cagr_vs_asset = NaN
             /\ Raised \notin {df_res[x].ratio_annual_vs_asset,
                               df_res[x].ratio_cagr_vs_asset}

\* a run without a single trade whose row went through the ratios against an
\* asset that moved by 5e-13
C15_Witness ==
    /\ Returned
    /\ mpc = "mark"
    /\ stats.trades = 0
    /\ stats.label1_ratio = Rat(0, 1)
    /\ stats.sharpe_annual = NaN
    /\ asset_annual_lin = Asset(0, 5)
    /\ df_res[1].ratio_annual_vs_asset = NaN
    /\ df_res[1].ratio_cagr_vs_asset = NaN
    /\ stats.calmar_ratio # NaN

\* C16: the result row of a combination does not depend on which other
\* combinations were evaluated before it or in what order: a call of the
\* simulator starts from fresh state, so the row of a combination evaluated
\* after another one equals its row evaluated first, and no step changes the
\* price series or the configuration.
C16_OrderIndependent ==
    /\ [](runs = 3 /\ pc = "returned" => stats = first)
    /\ [][df' = df /\ days' = days /\ cfgVars' = cfgVars]_vars

\* a combination with trades, evaluated again after a different one
C16_Witness ==
    /\ runs = 3
    /\ Returned
    /\ saved.other # saved.args
    /\ stats.trades > 0
    /\ stats = first
    /\ stats.tp_frac = saved.args.tp_frac

TaskOver(r) == task[r].pc \in {"returned", "raised"}

\* C17: every execution of run_labeling_optimizer for a registered run ends
\* with the registry status terminal: a successful script gives "succeeded";
\* a non-zero exit, a timeout or any exception gives "failed"; the status is
\* never left "running" once the task has returned.
C17_TerminalStatus ==
    \A r \in RunIds :
        TaskOver(r) =>
            /\ all_runs[r].status \in {"succeeded", "failed"}
            /\ (task[r].result = "exit0" /\ ~task[r].raised)
                  => all_runs[r].status = "succeeded"
            /\ (task[r].result # "exit0" \/ task[r].raised)
                  => all_runs[r].status = "failed"

\* the step resolves the position p with outcome o
ResolvedWith(p, o) ==
    /\ Len(log') = Len(log) + 1
    /\ log'[Len(log')].out = o
    /\ log'[Len(log')].born = p.born
    /\ log'[Len(log')].bar = i
    /\ still_open' = still_open

\* C18: when exactly one of TP and SL is hit on a bar, that outcome resolves
\* the position, also on its expiry bar; when neither is hit the position
\* resolves FLAT if the bar index has reached its expiry, and otherwise it is
\* carried unchanged (same TP level, SL level and expiry) into the next bar.
C18_Precedence ==
    [][/\ (pc = "loop" /\ k <= Len(open_pos)) =>
            LET p == open_pos[k]
                tp == df[i + 1].High * Unit >= p.tp_level
                sl == df[i + 1].Low * Unit <= p.sl_level
            IN /\ (tp /\ ~sl) => ResolvedWith(p, 1)
               /\ (sl /\ ~tp) => ResolvedWith(p, -1)
               /\ (~tp /\ ~sl /\ i >= p.expiry) => ResolvedWith(p, 0)
               /\ (~tp /\ ~sl /\ i < p.expiry) =>
                      /\ still_open' = Append(still_open, p)
                      /\ log' = log
       /\ (pc = "loop" /\ k > Len(open_pos)) => open_pos' = still_open
      ]_vars

\* a position carried over a bar and then closed by its TP alone on its expiry
\* bar
C18_Witness ==
    \E x \in 1..Len(log) :
        /\ log[x].out = 1
        /\ log[x].hit_tp /\ ~log[x].hit_sl
        /\ log[x].bar = log[x].expiry
        /\ log[x].born < log[x].bar

\* the eff_r of the TP and SL resolutions so far, in order
RECURSIVE TradeReturns(_)
TradeReturns(lg) ==
    IF lg = <<>> THEN <<>>
    ELSE (IF Head(lg).out # 0 THEN <<Head(lg).eff_r>> ELSE <<>>) \o TradeReturns(Tail(lg))
RECURSIVE SeqSum(_)
SeqSum(sq) == IF sq = <<>> THEN 0 ELSE Head(sq) + SeqSum(Tail(sq))
\* the sum over xs of (t * x - S)^2: t * t times the sum of the squared
\* deviations of the xs from their mean S / t
RECURSIVE ScaledSquaredDeviations(_, _, _)
ScaledSquaredDeviations(xs, t, S) ==
    IF xs = <<>> THEN <<>>
    ELSE LET d == Abs(t * Head(xs) - S)
         IN BigAdd(BigProd(BigOf(1), <<d, d>>),
                   ScaledSquaredDeviations(Tail(xs), t, S))

\* mean_r is the arithmetic mean of eff_r over the TP and SL resolutions
WelfordMeanHolds ==
    LET xs == TradeReturns(log)
    IN /\ trades = Len(xs)
       /\ Len(xs) > 0 => mean_r.num * Len(xs) = SeqSum(xs) * mean_r.den
       /\ Len(xs) = 0 => mean_r.num = 0

\* C19: the accumulator is exact: after any sequence of resolutions mean_r
\* equals the arithmetic mean of eff_r over the TP and SL resolutions and M2
\* equals the sum of their squared deviations from that mean; a FLAT
\* resolution changes neither.
C19_WelfordExact ==
    LET xs == TradeReturns(log)
        t == Len(xs)
        Q == LcmUpTo(t)
    IN /\ WelfordMeanHolds
       /\ Len(M2) = t
       /\ BigProd(M2Scaled(M2, Q), <<t, t>>)
             = BigProd(ScaledSquaredDeviations(xs, t, SeqSum(xs)), <<Q, Q>>)

\* the combinations dealt with so far: counted, and their result collected
Handled == IF gpc = "wait" THEN counter - 1 ELSE counter
\* the counts at which a report is due, among the first c combinations
DueUpTo(c) ==
    {1000 * j : j \in 1..(c \div 1000)}
    \cup (IF total_combos > 0 /\ c >= total_combos THEN {total_combos} ELSE {})

\* C20: during a grid run progress is reported exactly at every combination
\* whose 1-based count is a multiple of 1000 and at the last combination,
\* whether or not the combination was skipped; the reported step values are
\* strictly increasing and the final report has step = total combinations and
\* percent = 100.
C20_ProgressReports ==
    /\ {reports[x].step : x \in 1..Len(reports)} = DueUpTo(Handled)
    /\ \A x \in 1..Len(reports) - 1 : reports[x].step < reports[x + 1].step
    /\ (gpc = "done" /\ total_combos > 0) =>
          /\ Len(reports) > 0
          /\ reports[Len(reports)].step = total_combos
          /\ reports[Len(reports)].percent = 100 * 100

\* a run of 1250 combinations, every one skipped, reported at 1000 (80 %) and
\* at 1250
C20_Witness ==
    /\ gpc = "done"
    /\ Len(df) < 3
    /\ results = <<>>
    /\ total_combos = 1250
    /\ reports = <<[step |-> 1000, percent |-> 8000], [step |-> 1250, percent |-> 10000]>>

ScenOf(o) == CASE o = 1 -> "TP" [] o = -1 -> "SL" [] OTHER -> "FLAT"
BothDone == pc = "returned" /\ dpc = "returned" /\ stats # None

\* C21: simulate_daily_realized_pnl_parallel follows the position model of
\* simulate_system_for_metrics: each position resolves at the same bar with the
\* same outcome (TP, SL or FLAT) in both, so the daily realized returns add up
\* to pnl_linear of the grid simulator.
C21_SameModel ==
    BothDone =>
        /\ {<<dlog[x].born, dlog[x].bar, dlog[x].scen>> : x \in 1..Len(dlog)}
              = {<<log[x].born, log[x].bar, ScenOf(log[x].out)>> : x \in 1..Len(log)}
        /\ SeqSum(daily_realized) = stats.pnl_linear

\* C22: after cancel_training_chart_generator has returned for an existing
\* run, every read of that run's progress returns phase "cancelled", whatever
\* the generator task does afterwards, and the generator's subprocess is no
\* longer running.
C22_CancelSticks ==
    \A r \in RunIds :
        cancel_returned[r] =>
            /\ ReadProgressFile(r) = "cancelled"
            /\ proc[r] # "running"

\* C24: analysis of a trainer run can be started exactly when its training has
\* completed: a request for a known run is answered 400 while the trainer has
\* not reported "done", and accepted (200) once run_trainer has reported
\* phase "done".
C24_AnalysisWhenDone ==
    \A r \in RunIds :
        analysis_response[r].code \in {200, 400} =>
            /\ analysis_response[r].phase = "done"
                  => analysis_response[r].code = 200
            /\ analysis_response[r].phase # "done"
                  => analysis_response[r].code = 400

\* C25: the status of every run in the global registry is one of the
\* documented values "queued", "running", "succeeded", "failed", "cancelled",
\* after any sequence of register_run and progress updates from any tool.
DocumentedStatuses == {"queued", "running", "succeeded", "failed", "cancelled"}
C25_DocumentedStatus ==
    \A r \in RegistryIds :
        all_runs[r] # Absent => all_runs[r].status \in DocumentedStatuses

\* the levels of the claim, from the first future bar's Open
FirstOpen == future_data[1].Open
TpFirstAt(j) ==
    /\ future_data[j].High * Unit >= FirstOpen * (Unit + lab_f)
    /\ \A b \in 1..j : future_data[b].Low * Unit > FirstOpen * (Unit - lab_s)
TpFirst == \E j \in 1..Len(future_data) : TpFirstAt(j)
Labelled == lab_pc = "returned" /\ ~data_empty /\ future_data # <<>>

\* C23: tp_first_else_zero_from_next_open returns label 1 if and only if some
\* future bar has High >= tp_level while no bar up to and including it has
\* Low <= sl_level, the levels taken from the first future bar's Open; a bar
\* that hits both levels gives label 0 and so does a window in which neither
\* level is hit.
C23_LabelIffTpFirst ==
    /\ lab_pc = "returned" => (lab_ret.label = Num(1) <=> Labelled /\ TpFirst)
    /\ (Labelled /\ ~TpFirst) => lab_ret.label = Num(0)
\* a window whose TP is hit first, on a later bar than the entry bar
C23_Witness ==
    /\ Labelled
    /\ lab_ret.label = Num(1)
    /\ lab_j >= 2

\* the number of resolutions of the position opened at bar j
ResolutionsOf(j) == Cardinality({x \in 1..Len(log) : log[x].born = j})

\* C26: when simulate_system_for_metrics finishes a series of n >= 3 bars, the
\* open-position set is empty and the numbers of TP, SL and FLAT resolutions
\* add up to exactly n - 1: every position opened is resolved exactly once.
C26_AllResolvedOnce ==
    (pc = "post" \/ Returned) =>
        /\ OpenSet = {}
        /\ NumOut(1) + NumOut(-1) + NumOut(0) = n - 1
        /\ \A j \in 1..(n - 1) : ResolutionsOf(j) = 1

\* a finished run with a TP, an SL and a FLAT resolution
C26_Witness ==
    /\ Returned
    /\ NumOut(1) > 0 /\ NumOut(-1) > 0 /\ NumOut(0) > 0

\* C27: after bar i has been processed, every position still open has
\* expiry > i and was opened at a bar j with i - h + 1 < j <= i, so at most
\* h - 1 positions are open between bars; with h = 1 the open set is empty
\* after every bar.  Between bars the last bar processed is i - 1.
C27_OpenWindow ==
    pc \in {"bar", "post"} =>
        /\ \A p \in OpenSet :
              /\ p.expiry > i - 1
              /\ (i - 1) - h + 1 < p.born
              /\ p.born <= i - 1
        /\ Len(open_pos) <= h - 1
        /\ h = 1 => open_pos = <<>>

\* the horizon's full complement of open positions between two bars
C27_Witness ==
    /\ pc = "bar"
    /\ h >= 3
    /\ Len(open_pos) = h - 1

\* the equity before the x-th resolution
EquityBefore(x) == IF x = 1 THEN One ELSE log[x - 1].eq
\* the floor of equity_lin has raised a negative value to zero
FloorActed ==
    \E x \in 1..Len(log) : EquityBefore(x) + log[x].eff_r < 0

\* C28: the reported pnl_linear is the unfloored sum of all eff_r: after any
\* sequence of resolutions pnl_linear_sum <= equity_lin - 1, with equality if
\* and only if the zero floor on equity_lin never raised a negative value.
C28_PnlBelowEquity ==
    /\ pnl_linear_sum <= equity_lin - One
    /\ pnl_linear_sum = equity_lin - One <=> ~FloorActed

\* a finished run in which the floor acted and the equity rose again, so that
\* the reported P&L is below the change of the equity
C28_Witness ==
    /\ Returned
    /\ FloorActed
    /\ equity_lin > 0
    /\ stats.pnl_linear < equity_lin - One

\* C29: zero is absorbing for compounded equity: once equity_comp is 0 it is 0
\* after every later resolution, whatever the outcome, and the run then
\* reports compounded_return = -1 (a compounded equity of 0) and an undefined
\* compounded_cagr.
C29_ZeroAbsorbing ==
    /\ [][equity_comp = CompZero => equity_comp' = CompZero]_vars
    /\ []((Returned /\ equity_comp = CompZero) =>
             /\ stats.compounded_return = CompoundedReturn(CompZero)
             /\ stats.compounded_cagr = NaN)

\* a finished run whose compounded equity fell to 0 and stayed there through a
\* later TP, while the linear equity rose again from 0
C29_Witness ==
    /\ Returned
    /\ equity_comp = CompZero
    /\ \E x \in 1..Len(log) : \E y \in (x + 1)..Len(log) :
          /\ log[x].eq = 0
          /\ One + log[x].eff_r <= 0
          /\ log[y].out = 1
          /\ log[y].eq > 0

====
